---- MODULE Spec2Model ----
(***************************************************************************)
(* Model of bvzlib (modules/bvzlib/filesystem.py): the de-duplicating      *)
(* store built from files_keyed_by_size, copy_and_add_ver_num,             *)
(* verified_copy_file and copy_file_deduplicated; and of                   *)
(* modules/bvzlib/framespec.py: find_frame_spec, expand_frame_spec,        *)
(* calc_padding, seq_id_to_regex, udim_id_to_regex and expand_files.       *)
(*                                                                         *)
(* Paths and file names are character sequences, so that the string        *)
(* operations of the code (startswith, rstrip, os.path.split, splitext,    *)
(* join, relpath, str(v).rjust) are computed as posixpath computes them.   *)
(* File contents are byte sequences; the size of a file is the length of   *)
(* its content.  Paths handed to the functions are absolute and            *)
(* normalised ("full paths" in the docstrings) and no directory is a       *)
(* symlink.                                                                *)
(***************************************************************************)
EXTENDS Integers, Sequences, FiniteSets, TLC

\* ------------------------------------------------------------------------
\* Bounds of the model
\* ------------------------------------------------------------------------

\* number of calls of the library a behaviour makes
MaxCalls == 2

\* number of comma-separated subranges of a framespec
MaxSubranges == 2

\* number of dot-separated texts of a file name
MaxFields == 3

\* number of pieces (letters, delimiters, markers) of a string with a
\* sequence identifier
MaxPieces == 4

\* number of entries of a directory listing
MaxEntries == 2

\* the largest depth given to ancestor_contains_file
MaxDepth == 3

\* the largest version number a directory holds before a call of
\* copy_and_add_ver_num on its own
MaxVersions == 10

\* ------------------------------------------------------------------------
\* Program constants
\* ------------------------------------------------------------------------

\* copy_and_add_ver_num / copy_file_deduplicated: num_digits=4
DefaultNumDigits == 4

\* copy_and_add_ver_num / copy_file_deduplicated: ver_prefix="v"
DefaultVerPrefix == <<"v">>

\* os.chmod(matched_p, 0o644)
LockedMode == "0o644"

\* os.path.sep, os.path.curdir, os.path.pardir
Sep == "/"
CurDir == <<".">>
ParDir == <<".", ".">>

\* ------------------------------------------------------------------------
\* String helpers (python str methods)
\* ------------------------------------------------------------------------

\* s.startswith(t)
StartsWith(s, t) == Len(t) <= Len(s) /\ SubSeq(s, 1, Len(t)) = t

\* s.rfind(c) + 1: the index of the last c in s, 0 when there is none
RFind(s, c) ==
    LET hits == {i \in 1..Len(s) : s[i] = c}
    IN  IF hits = {} THEN 0 ELSE CHOOSE i \in hits : \A j \in hits : j <= i

\* s.rstrip(c)
RECURSIVE RStrip(_, _)
RStrip(s, c) ==
    IF s # <<>> /\ s[Len(s)] = c THEN RStrip(SubSeq(s, 1, Len(s) - 1), c) ELSE s

\* s.split(c): the list of the pieces of s between the occurrences of c
RECURSIVE StrSplit(_, _)
StrSplit(s, c) ==
    LET hits == {i \in 1..Len(s) : s[i] = c}
    IN  IF hits = {} THEN <<s>>
        ELSE LET i == CHOOSE k \in hits : \A j \in hits : k <= j
             IN  <<SubSeq(s, 1, i - 1)>> \o StrSplit(SubSeq(s, i + 1, Len(s)), c)

\* c.join(parts)
RECURSIVE StrJoin(_, _)
StrJoin(parts, c) ==
    IF parts = <<>> THEN <<>>
    ELSE IF Len(parts) = 1 THEN parts[1]
    ELSE parts[1] \o <<c>> \o StrJoin(Tail(parts), c)

\* the decimal digit characters
DigitChar(d) == <<"0", "1", "2", "3", "4", "5", "6", "7", "8", "9">>[d + 1]

\* str(v) for an integer v >= 0
RECURSIVE Str(_)
Str(v) == IF v < 10 THEN <<DigitChar(v)>> ELSE Str(v \div 10) \o <<DigitChar(v % 10)>>

\* s.rjust(width, fill): pads on the left, never truncates
RECURSIVE RJust(_, _, _)
RJust(s, width, fill) == IF Len(s) >= width THEN s ELSE RJust(<<fill>> \o s, width, fill)

\* ------------------------------------------------------------------------
\* posixpath
\* ------------------------------------------------------------------------

\* os.path.split(p): (head, tail), tail holding no separator
PathSplit(p) ==
    LET i    == RFind(p, Sep)
        head == SubSeq(p, 1, i)
        tail == SubSeq(p, i + 1, Len(p))
    IN  IF head # <<>> /\ RStrip(head, Sep) # <<>>
        THEN <<RStrip(head, Sep), tail>>
        ELSE <<head, tail>>

\* os.path.splitext(p): (root, ext); leading dots of the name start no extension
PathSplitExt(p) ==
    LET sepIndex == RFind(p, Sep)
        dotIndex == RFind(p, ".")
    IN  IF dotIndex > sepIndex + 1
           /\ \E k \in (sepIndex + 1)..(dotIndex - 1) : p[k] # "."
        THEN <<SubSeq(p, 1, dotIndex - 1), SubSeq(p, dotIndex, Len(p))>>
        ELSE <<p, <<>> >>

\* os.path.join(a, b)
PathJoin(a, b) ==
    IF StartsWith(b, <<Sep>>) THEN b
    ELSE IF a = <<>> \/ a[Len(a)] = Sep THEN a \o b
    ELSE a \o <<Sep>> \o b

\* the loop of os.path.normpath over the components
RECURSIVE NormComps(_, _, _)
NormComps(comps, new, isAbs) ==
    IF comps = <<>> THEN new
    ELSE LET c == Head(comps)
         IN  IF c = <<>> \/ c = CurDir THEN NormComps(Tail(comps), new, isAbs)
             ELSE IF c # ParDir \/ (~isAbs /\ new = <<>>)
                     \/ (new # <<>> /\ new[Len(new)] = ParDir)
                  THEN NormComps(Tail(comps), Append(new, c), isAbs)
             ELSE IF new # <<>>
                  THEN NormComps(Tail(comps), SubSeq(new, 1, Len(new) - 1), isAbs)
             ELSE NormComps(Tail(comps), new, isAbs)

\* os.path.normpath(p)
NormPath(p) ==
    LET isAbs  == StartsWith(p, <<Sep>>)
        joined == StrJoin(NormComps(StrSplit(p, Sep), <<>>, isAbs), Sep)
        path   == IF isAbs THEN <<Sep>> \o joined ELSE joined
    IN  IF path = <<>> THEN CurDir ELSE path

\* the components of an absolute path: [x for x in abspath(p).split(sep) if x]
PathList(p) == SelectSeq(StrSplit(NormPath(p), Sep), LAMBDA c : c # <<>>)

\* len(os.path.commonprefix([a, b])) on component lists
CommonLen(a, b) ==
    LET ok == {i \in 0..Len(a) : i <= Len(b) /\ SubSeq(a, 1, i) = SubSeq(b, 1, i)}
    IN  CHOOSE i \in ok : \A j \in ok : j <= i

\* os.path.relpath(path, start), both absolute
RelPath(path, start) ==
    LET startList == PathList(start)
        pathList  == PathList(path)
        i         == CommonLen(startList, pathList)
        relList   == [k \in 1..(Len(startList) - i) |-> ParDir]
                     \o SubSeq(pathList, i + 1, Len(pathList))
    IN  IF relList = <<>> THEN CurDir ELSE StrJoin(relList, Sep)

\* the path a relative symlink target names, read from the directory of the link
ResolveLink(parent, target) == NormPath(PathJoin(parent, target))

\* ------------------------------------------------------------------------
\* The files the calls work on
\* ------------------------------------------------------------------------

\* data_d arguments: the store directory, a regular file, a path that is missing
StoreDir == <<"/", "a", "/", "d">>
PlainFile == <<"/", "a", "/", "f">>
MissingDir == <<"/", "a", "/", "m">>
DataDirs == {StoreDir, PlainFile, MissingDir}

\* what the filesystem holds at a data_d argument
DirKind(d) == IF d = StoreDir THEN "dir" ELSE IF d = PlainFile THEN "file" ELSE "missing"

\* dest_p arguments: two publish paths outside the store (at different depths),
\* one nested under the store, one in a sibling directory named like the store
PubX == <<"/", "a", "/", "p", "/", "x">>
PubY == <<"/", "a", "/", "q", "/", "r", "/", "y">>
PubNested == <<"/", "a", "/", "d", "/", "x">>
PubSibling == <<"/", "a", "/", "d", "2", "/", "x">>
DestPaths == {PubX, PubY, PubNested, PubSibling}

\* dest_p is inside data_d: data_d's components are a proper prefix of dest_p's
IsNestedUnder(dest_p, data_d) ==
    LET d == PathList(data_d)
        p == PathList(dest_p)
    IN  Len(d) < Len(p) /\ SubSeq(p, 1, Len(d)) = d

\* file contents: byte sequences, two of one size and one of another
Contents == {<<0>>, <<1>>, <<0, 1>>}

\* source_p arguments: a name with an extension, a name without, a directory,
\* a path that is missing
SrcAX == <<"/", "s", "/", "a", ".", "x">>
SrcB == <<"/", "s", "/", "b">>
SrcDir == <<"/", "s">>
SrcMissing == <<"/", "s", "/", "n">>

\* permission bits of the source files (shutil.copy copies them)
SourceMode == "0o664"

\* a source_p argument with what the filesystem holds there at call time
Sources ==
    {[path |-> p, kind |-> "file", content |-> c] : p \in {SrcAX, SrcB}, c \in Contents}
    \cup {[path |-> SrcDir, kind |-> "dir", content |-> <<>>],
          [path |-> SrcMissing, kind |-> "missing", content |-> <<>>]}

\* the arguments of the calls made: every well-formed call (a source file,
\* a publish path outside the store, the store directory), and the calls with
\* one argument that the opening assertions refuse
FileSources == {src \in Sources : src.kind = "file"}
GoodArgs ==
    {[src |-> src, dest_p |-> d, data_d |-> StoreDir] :
        src \in FileSources, d \in {PubX, PubY}}
BadArgs ==
    LET src == [path |-> SrcAX, kind |-> "file", content |-> <<0>>]
    IN  {[src |-> src, dest_p |-> d, data_d |-> StoreDir] : d \in {PubNested, PubSibling}}
        \cup {[src |-> b, dest_p |-> PubX, data_d |-> StoreDir] : b \in Sources \ FileSources}
        \cup {[src |-> src, dest_p |-> PubX, data_d |-> d] : d \in DataDirs \ {StoreDir}}
CallArgs == GoodArgs \cup BadArgs

\* directory entries at the publish paths
NoEntry == [kind |-> "none", content |-> <<>>, target |-> <<>>]
FileEntry(c) == [kind |-> "file", content |-> c, target |-> <<>>]
LinkEntry(t) == [kind |-> "symlink", content |-> <<>>, target |-> t]

\* a symlink whose target names a file the store no longer holds
DanglingEntry == LinkEntry(<<".", ".", "/", "d", "/", "z">>)

VARIABLES
    store,       \* the regular files in StoreDir: name -> [content, mode]
    pub,         \* the entries at the dest_p paths
    data_sizes,  \* the caller's dict: size -> list of paths (files_keyed_by_size)
    last,        \* arguments and outcome of the last call
    calls,       \* number of calls made
    allFresh,    \* every copy_file_deduplicated call so far was given a
                 \* data_sizes that reflects the store at call time
    proc,        \* concurrent callers: position and locals of each one's call
    wrote,       \* the copies into the store, in order: <<caller, name>>
    given,       \* the arguments of the call of a function made on its own
    returned,    \* what that call returned or raised
    local        \* ancestor_contains_file: the local variables of the call

vars == <<store, pub, data_sizes, last, calls, allFresh, proc, wrote, given, returned, local>>

\* ------------------------------------------------------------------------
\* md5_for_file, files_keyed_by_size
\* ------------------------------------------------------------------------

\* md5_for_file: the digest folds the blocks of the file in order (a block is
\* one byte here); the digest is collision-free on the contents modelled
RECURSIVE Md5Update(_, _)
Md5Update(h, data) == IF data = <<>> THEN h ELSE Md5Update(3 * h + Head(data) + 1, Tail(data))

Md5ForFile(content) == Md5Update(0, content)

\* os.path.getsize
GetSize(content) == Len(content)

\* the content of the regular file at path p of the store, <<>> when there is none
StoredName(p) == PathSplit(p)[2]
IsStored(st, p) == PathSplit(p)[1] = StoreDir /\ StoredName(p) \in DOMAIN st

\* the loop of files_keyed_by_size over the listing files_n of path_d
RECURSIVE KeyBySize(_, _, _, _)
KeyBySize(st, path_d, files_n, output) ==
    IF files_n = <<>> THEN output
    ELSE LET file_p    == PathJoin(path_d, Head(files_n))
             file_size == GetSize(st[Head(files_n)].content)
         IN  KeyBySize(st, path_d, Tail(files_n),
                 IF file_size \notin DOMAIN output
                 THEN output @@ (file_size :> <<file_p>>)
                 ELSE [output EXCEPT ![file_size] = Append(@, file_p)])

\* files_keyed_by_size(path_d), os.listdir having returned files_n
FilesKeyedBySizeOf(st, path_d, files_n) ==
    IF DirKind(path_d) = "missing" THEN <<>> ELSE KeyBySize(st, path_d, files_n, <<>>)

\* the orders os.listdir may return the names of the store in
Listings(st) ==
    {l \in [1..Cardinality(DOMAIN st) -> DOMAIN st] :
        \A i, j \in DOMAIN l : i # j => l[i] # l[j]}

\* the elements of a list
Range(seq) == {seq[i] : i \in DOMAIN seq}

\* data_sizes holds exactly the files of the store, keyed by size: its keys are
\* the sizes present and each list holds each path of that size once
ReflectsStore(idx, st) ==
    /\ DOMAIN idx = {GetSize(st[n].content) : n \in DOMAIN st}
    /\ \A size \in DOMAIN idx :
        /\ Range(idx[size]) =
               {PathJoin(StoreDir, n) : n \in {m \in DOMAIN st : GetSize(st[m].content) = size}}
        /\ \A i, j \in DOMAIN idx[size] : i # j => idx[size][i] # idx[size][j]

\* ------------------------------------------------------------------------
\* verified_copy_file, copy_and_add_ver_num
\* ------------------------------------------------------------------------

\* faulty variant: a copy that keeps a destination that exists already
ShutilCopyKeep(st, name, written, mode) ==
    IF name \in DOMAIN st THEN st
    ELSE st @@ (name :> [content |-> written, mode |-> mode])

\* shutil.copy(src, dst) into the store: dst is created, or overwritten when it
\* exists, with the bytes written and the permission bits of the source
ShutilCopy(st, name, written, mode) ==
    IF name \in DOMAIN st
    THEN [st EXCEPT ![name] = [content |-> written, mode |-> mode]]
    ELSE st @@ (name :> [content |-> written, mode |-> mode])

\* faulty variant: the corrupt copy is removed again before the error is raised
VerifiedCopyFileRollback(st, name, content, written, mode) ==
    IF Md5ForFile(content) # Md5ForFile(written)
    THEN [store |-> st, err |-> "IOError"]
    ELSE [store |-> ShutilCopy(st, name, written, mode), err |-> "none"]

\* verified_copy_file(src, dst): copy, then compare the md5 of source and copy;
\* written is what the copy put on disk
VerifiedCopyFile(st, name, content, written, mode) ==
    LET copied  == ShutilCopy(st, name, written, mode)
        src_md5 == Md5ForFile(content)
        dst_md5 == Md5ForFile(copied[name].content)
    IN  [store |-> copied,
         err   |-> IF src_md5 # dst_md5 THEN "IOError" ELSE "none"]

\* base + version + ext, version = "." + ver_prefix + str(v).rjust(num_digits, "0")
VersionedName(base, ext, ver_prefix, num_digits, v) ==
    base \o (<<".">> \o ver_prefix \o RJust(Str(v), num_digits, "0")) \o ext

\* os.path.exists(dest_p) for an entry of the destination directory
DestExists(st, dest_d, name) == IsStored(st, PathJoin(dest_d, name))

\* faulty variant: the loop without its os.path.exists test, the first name is taken
FreeVersionNoCheck(st, dest_d, base, ext, ver_prefix, num_digits, v) == v

\* faulty variant: the loop stepping by two, so that a free number is passed over
RECURSIVE FreeVersionSkip(_, _, _, _, _, _, _)
FreeVersionSkip(st, dest_d, base, ext, ver_prefix, num_digits, v) ==
    IF DestExists(st, dest_d, VersionedName(base, ext, ver_prefix, num_digits, v))
    THEN FreeVersionSkip(st, dest_d, base, ext, ver_prefix, num_digits, v + 2)
    ELSE v

\* the while loop of copy_and_add_ver_num: v counts up from its start until
\* no file of the versioned name exists
RECURSIVE FreeVersion(_, _, _, _, _, _, _)
FreeVersion(st, dest_d, base, ext, ver_prefix, num_digits, v) ==
    IF DestExists(st, dest_d, VersionedName(base, ext, ver_prefix, num_digits, v))
    THEN FreeVersion(st, dest_d, base, ext, ver_prefix, num_digits, v + 1)
    ELSE v

\* copy_and_add_ver_num(source_p, dest_d, ver_prefix, num_digits, do_verified_copy)
CopyAndAddVerNum(st, src, dest_d, ver_prefix, num_digits, do_verified_copy, written) ==
    LET source_n == PathSplit(src.path)[2]
        base     == PathSplitExt(source_n)[1]
        ext      == PathSplitExt(source_n)[2]
        v        == FreeVersion(st, dest_d, base, ext, ver_prefix, num_digits, 1)
        name     == VersionedName(base, ext, ver_prefix, num_digits, v)
        dest_p   == PathJoin(dest_d, name)
        verified == VerifiedCopyFile(st, name, src.content, written, SourceMode)
    IN  IF do_verified_copy
        THEN [store |-> verified.store, err |-> verified.err, dest_p |-> dest_p, v |-> v]
        ELSE [store |-> ShutilCopy(st, name, written, SourceMode), err |-> "none",
              dest_p |-> dest_p, v |-> v]

\* ------------------------------------------------------------------------
\* copy_file_deduplicated
\* ------------------------------------------------------------------------

\* faulty variant: the nesting assertion left out
NotInDataDirOff(dest_p, data_d) == TRUE

\* faulty variant: the nesting test made on the components of the paths
NotInDataDirComponents(dest_p, data_d) == ~IsNestedUnder(dest_p, data_d)

\* assert not dest_p.startswith(data_d)
NotInDataDir(dest_p, data_d) == ~StartsWith(dest_p, data_d)

\* the assertions that open copy_file_deduplicated
ArgsOk(src, dest_p, data_d) ==
    /\ NotInDataDir(dest_p, data_d)
    /\ src.kind # "missing"
    /\ DirKind(data_d) # "missing"
    /\ DirKind(data_d) = "dir"
    /\ src.kind # "dir"

\* faulty variant: the lookup never finds its key
PossibleMatchesNone(idx, size) == <<>>

\* possible_matches_p = data_sizes[size], [] on KeyError
PossibleMatches(idx, size) == IF size \in DOMAIN idx THEN idx[size] ELSE <<>>

\* faulty variant: the search reads the live directory and not the candidates
\* of the index
FindMatchLive(st, possible, source_md5) ==
    LET same == {n \in DOMAIN st : Md5ForFile(st[n].content) = source_md5}
    IN  IF same = {} THEN <<>> ELSE PathJoin(StoreDir, CHOOSE n \in same : TRUE)

\* faulty variant: the md5 comparison inverted
RECURSIVE FindMatchInverted(_, _, _)
FindMatchInverted(st, possible, source_md5) ==
    IF possible = <<>> THEN <<>>
    ELSE IF source_md5 # Md5ForFile(st[StoredName(Head(possible))].content)
         THEN Head(possible)
         ELSE FindMatchInverted(st, Tail(possible), source_md5)

\* the loop over possible_matches_p: the first path whose md5 equals the
\* source's, <<>> (None) when there is none
RECURSIVE FindMatch(_, _, _)
FindMatch(st, possible, source_md5) ==
    IF possible = <<>> THEN <<>>
    ELSE IF source_md5 = Md5ForFile(st[StoredName(Head(possible))].content)
         THEN Head(possible)
         ELSE FindMatch(st, Tail(possible), source_md5)

\* os.chmod(matched_p, 0o644)
Chmod(st, matched_p) == [st EXCEPT ![StoredName(matched_p)].mode = LockedMode]

\* os.path.exists(dest_p): a symlink exists when the file it names exists
PathExists(pb, st, dest_p) ==
    \/ pb[dest_p].kind = "file"
    \/ /\ pb[dest_p].kind = "symlink"
       /\ IsStored(st, ResolveLink(PathSplit(dest_p)[1], pb[dest_p].target))

\* os.unlink(dest_p)
Unlink(pb, dest_p) == [pb EXCEPT ![dest_p] = NoEntry]

\* os.symlink(relative_p, dest_p): FileExistsError when dest_p has an entry
Symlink(pb, relative_p, dest_p) ==
    IF pb[dest_p].kind # "none"
    THEN [pub |-> pb, err |-> "FileExistsError"]
    ELSE [pub |-> [pb EXCEPT ![dest_p] = LinkEntry(relative_p)], err |-> "none"]

\* faulty variant: the relative path taken from dest_p itself, not from its parent
RelativeTargetFromDest(matched_p, dest_p, data_d) ==
    PathJoin(RelPath(data_d, dest_p), PathSplit(RStrip(matched_p, Sep))[2])

\* the relative path of the symlink: from the parent of dest_p to matched_p
RelativeTarget(matched_p, dest_p, data_d) ==
    LET dest_parent_p  == PathSplit(RStrip(dest_p, Sep))[1]
        matched_file_n == PathSplit(RStrip(matched_p, Sep))[2]
        relative_d     == RelPath(data_d, dest_parent_p)
    IN  PathJoin(relative_d, matched_file_n)

\* if os.path.exists(dest_p): os.unlink(dest_p); os.symlink(relative_p, dest_p)
Publish(pb, st, relative_p, dest_p) ==
    Symlink(IF PathExists(pb, st, dest_p) THEN Unlink(pb, dest_p) ELSE pb,
            relative_p, dest_p)

\* ------------------------------------------------------------------------
\* The single caller: it builds its index with files_keyed_by_size when it
\* chooses to and hands it to every copy_file_deduplicated call
\* ------------------------------------------------------------------------

NoCall ==
    [op |-> "none", src |-> [path |-> <<>>, kind |-> "missing", content |-> <<>>],
     dest_p |-> <<>>, data_d |-> <<>>, num_digits |-> 0, verified |-> FALSE,
     written |-> <<>>, err |-> "none", ret |-> <<>>, copied |-> FALSE,
     matched |-> <<>>, possible |-> <<>>]

\* the concurrent callers and a caller that has not called yet
Procs == {1, 2}
IdleProc ==
    [pc |-> "idle", src |-> NoCall.src, dest_p |-> <<>>, idx |-> <<>>, v |-> 0,
     matched |-> <<>>, err |-> "none"]

Init ==
    /\ store = <<>>
    /\ pub \in {pb \in [DestPaths -> {NoEntry, FileEntry(<<1>>), DanglingEntry}] :
                   \A d \in DestPaths \ {PubX} : pb[d] = NoEntry}
    /\ data_sizes = <<>>
    /\ last = NoCall
    /\ calls = 0
    /\ allFresh = TRUE
    /\ proc = [p \in Procs |-> IdleProc]
    /\ wrote = <<>>
    /\ local = <<>>
    /\ given = <<>>
    /\ returned = <<>>

\* data_sizes = files_keyed_by_size(path_d)
FilesKeyedBySize ==
    \E files_n \in Listings(store) :
        /\ data_sizes' = FilesKeyedBySizeOf(store, StoreDir, files_n)
        /\ UNCHANGED <<store, pub, last, calls, allFresh, proc, wrote, given, returned, local>>

\* what last records of a call
CallRecord(args, err, ret, copied, matched, possible) ==
    [op |-> "dedup", src |-> args.src, dest_p |-> args.dest_p, data_d |-> args.data_d,
     num_digits |-> DefaultNumDigits, verified |-> FALSE, written |-> args.src.content,
     err |-> err, ret |-> ret, copied |-> copied, matched |-> matched,
     possible |-> possible]

\* copy_file_deduplicated(source_p, dest_p, data_d, data_sizes): an assertion
\* fails and nothing is done, or the call runs: candidate search, copy when no
\* candidate matches, chmod, publish.  A refused call is not counted in calls.
CopyFileDeduplicated ==
    \E args \in CallArgs :
        \/ /\ ~ArgsOk(args.src, args.dest_p, args.data_d)
           /\ last' = CallRecord(args, "AssertionError", <<>>, FALSE, <<>>, <<>>)
           /\ UNCHANGED <<store, pub, data_sizes, calls, allFresh, proc, wrote, given, returned, local>>
        \/ /\ ArgsOk(args.src, args.dest_p, args.data_d)
           /\ calls < MaxCalls
           /\ \E possible \in {PossibleMatches(data_sizes, GetSize(args.src.content))} :
              \E found \in {FindMatch(store, possible, Md5ForFile(args.src.content))} :
              \E copy \in {IF found = <<>>
                           THEN CopyAndAddVerNum(store, args.src, args.data_d,
                                    DefaultVerPrefix, DefaultNumDigits, FALSE,
                                    args.src.content)
                           ELSE [store |-> store, err |-> "none", dest_p |-> found,
                                 v |-> 0]} :
              \E locked \in {Chmod(copy.store, copy.dest_p)} :
              \E published \in {Publish(pub, locked,
                                   RelativeTarget(copy.dest_p, args.dest_p, args.data_d),
                                   args.dest_p)} :
                  /\ store' = locked
                  /\ pub' = published.pub
                  /\ last' = CallRecord(args, published.err,
                                 IF published.err = "none" THEN copy.dest_p ELSE <<>>,
                                 found = <<>>, copy.dest_p, possible)
           /\ calls' = calls + 1
           /\ allFresh' = (allFresh /\ ReflectsStore(data_sizes, store))
           /\ UNCHANGED <<data_sizes, proc, wrote, given, returned, local>>

Next == FilesKeyedBySize \/ CopyFileDeduplicated

Spec == Init /\ [][Next]_vars

\* ------------------------------------------------------------------------
\* copy_and_add_ver_num called on its own, on a medium that may write other
\* bytes than it read
\* ------------------------------------------------------------------------

\* copy_and_add_ver_num(src.path, data_d, do_verified_copy=...), the copy
\* putting `written` on disk
CopyAndAddVerNumCall ==
    \E src \in FileSources, do_verified_copy \in BOOLEAN, written \in Contents :
        /\ calls < MaxCalls
        /\ \E copy \in {CopyAndAddVerNum(store, src, StoreDir, DefaultVerPrefix,
                            DefaultNumDigits, do_verified_copy, written)} :
              /\ store' = copy.store
              /\ last' = [op |-> "copy_ver", src |-> src, dest_p |-> <<>>,
                          data_d |-> StoreDir, num_digits |-> DefaultNumDigits,
                          verified |-> do_verified_copy, written |-> written,
                          err |-> copy.err,
                          ret |-> IF copy.err = "none" THEN copy.dest_p ELSE <<>>,
                          copied |-> TRUE, matched |-> copy.dest_p, possible |-> <<>>]
        /\ calls' = calls + 1
        /\ UNCHANGED <<pub, data_sizes, allFresh, proc, wrote, given, returned, local>>

SpecFault == Init /\ [][CopyAndAddVerNumCall]_vars

\* ------------------------------------------------------------------------
\* Two callers of copy_file_deduplicated at once: each builds its index and
\* calls; every test, copy, chmod, unlink and symlink is a step of its own
\* ------------------------------------------------------------------------

\* the calls of the two callers: caller 1 stores a.x; caller 2 stores other
\* bytes under the same name, the same bytes under another name, or the same
\* file again
ConcArgs(p) ==
    IF p = 1
    THEN {[src |-> [path |-> SrcAX, kind |-> "file", content |-> <<0>>],
           dest_p |-> PubX, data_d |-> StoreDir]}
    ELSE {[src |-> [path |-> sp, kind |-> "file", content |-> c],
           dest_p |-> PubY, data_d |-> StoreDir] :
             <<sp, c>> \in {<<SrcAX, <<1>> >>, <<SrcB, <<0>> >>, <<SrcAX, <<0>> >>}}

\* the name copy_and_add_ver_num tries at version proc[p].v
TriedName(p) ==
    LET source_n == PathSplit(proc[p].src.path)[2]
    IN  VersionedName(PathSplitExt(source_n)[1], PathSplitExt(source_n)[2],
                      DefaultVerPrefix, DefaultNumDigits, proc[p].v)

\* the caller lists the store into its index and calls; the assertions pass
CCall(p) ==
    /\ proc[p].pc = "idle"
    /\ \E args \in ConcArgs(p), files_n \in Listings(store) :
          /\ ArgsOk(args.src, args.dest_p, args.data_d)
          /\ proc' = [proc EXCEPT ![p] =
                 [@ EXCEPT !.pc = "search", !.src = args.src, !.dest_p = args.dest_p,
                           !.idx = FilesKeyedBySizeOf(store, StoreDir, files_n)]]
    /\ UNCHANGED <<store, pub, data_sizes, last, calls, allFresh, wrote, given, returned, local>>

\* the candidate search
CSearch(p) ==
    /\ proc[p].pc = "search"
    /\ \E found \in {FindMatch(store,
                         PossibleMatches(proc[p].idx, GetSize(proc[p].src.content)),
                         Md5ForFile(proc[p].src.content))} :
          proc' = [proc EXCEPT ![p] =
              IF found = <<>>
              THEN [@ EXCEPT !.pc = "exists", !.v = 1]
              ELSE [@ EXCEPT !.pc = "chmod", !.matched = found]]
    /\ UNCHANGED <<store, pub, data_sizes, last, calls, allFresh, wrote, given, returned, local>>

\* one turn of the loop of copy_and_add_ver_num: os.path.exists(dest_p)
CExists(p) ==
    /\ proc[p].pc = "exists"
    /\ proc' = [proc EXCEPT ![p] =
           IF DestExists(store, StoreDir, TriedName(p))
           THEN [@ EXCEPT !.v = @ + 1]
           ELSE [@ EXCEPT !.pc = "copy"]]
    /\ UNCHANGED <<store, pub, data_sizes, last, calls, allFresh, wrote, given, returned, local>>

\* shutil.copy(source_p, dest_p)
CCopy(p) ==
    /\ proc[p].pc = "copy"
    /\ store' = ShutilCopy(store, TriedName(p), proc[p].src.content, SourceMode)
    /\ wrote' = Append(wrote, <<p, TriedName(p)>>)
    /\ proc' = [proc EXCEPT ![p] =
           [@ EXCEPT !.pc = "chmod", !.matched = PathJoin(StoreDir, TriedName(p))]]
    /\ UNCHANGED <<pub, data_sizes, last, calls, allFresh, given, returned, local>>

\* os.chmod(matched_p, 0o644)
CChmod(p) ==
    /\ proc[p].pc = "chmod"
    /\ store' = Chmod(store, proc[p].matched)
    /\ proc' = [proc EXCEPT ![p].pc = "pubexists"]
    /\ UNCHANGED <<pub, data_sizes, last, calls, allFresh, wrote, given, returned, local>>

\* if os.path.exists(dest_p)
CPubExists(p) ==
    /\ proc[p].pc = "pubexists"
    /\ proc' = [proc EXCEPT ![p].pc =
           IF PathExists(pub, store, proc[p].dest_p) THEN "unlink" ELSE "symlink"]
    /\ UNCHANGED <<store, pub, data_sizes, last, calls, allFresh, wrote, given, returned, local>>

\* os.unlink(dest_p)
CUnlink(p) ==
    /\ proc[p].pc = "unlink"
    /\ IF pub[proc[p].dest_p].kind = "none"
       THEN /\ proc' = [proc EXCEPT ![p] =
                    [@ EXCEPT !.pc = "done", !.err = "FileNotFoundError"]]
            /\ pub' = pub
       ELSE /\ proc' = [proc EXCEPT ![p].pc = "symlink"]
            /\ pub' = Unlink(pub, proc[p].dest_p)
    /\ UNCHANGED <<store, data_sizes, last, calls, allFresh, wrote, given, returned, local>>

\* os.symlink(relative_p, dest_p); return matched_p
CSymlink(p) ==
    /\ proc[p].pc = "symlink"
    /\ \E linked \in {Symlink(pub, RelativeTarget(proc[p].matched, proc[p].dest_p,
                                                  StoreDir), proc[p].dest_p)} :
          /\ pub' = linked.pub
          /\ proc' = [proc EXCEPT ![p] = [@ EXCEPT !.pc = "done", !.err = linked.err]]
    /\ UNCHANGED <<store, data_sizes, last, calls, allFresh, wrote, given, returned, local>>

NextConc ==
    \E p \in Procs :
        \/ CCall(p)
        \/ CSearch(p)
        \/ CExists(p)
        \/ CCopy(p)
        \/ CChmod(p)
        \/ CPubExists(p)
        \/ CUnlink(p)
        \/ CSymlink(p)

SpecConc == Init /\ [][NextConc]_vars

\* ------------------------------------------------------------------------
\* framespec.py: values, strings and the pieces of re the functions use
\* ------------------------------------------------------------------------

\* None, and a value that is not None (an unmatched group of a match is None)
None == <<>>
Some(v) == <<v>>

\* the variables of the store, which the functions of framespec.py leave alone
storeVars == <<store, pub, data_sizes, last, calls, allFresh, proc, wrote>>

\* no store, no call of it
NoStore ==
    /\ store = <<>>
    /\ pub = [d \in DestPaths |-> NoEntry]
    /\ data_sizes = <<>>
    /\ last = NoCall
    /\ calls = 0
    /\ allFresh = TRUE
    /\ proc = [p \in Procs |-> IdleProc]
    /\ wrote = <<>>
    /\ local = <<>>

\* the call has not returned; it returned value; it raised err
NotReturned == [err |-> "pending", value |-> <<>>]
Returns(value) == [err |-> "none", value |-> value]
Raises(err) == [err |-> err, value |-> <<>>]

\* min and max of a non-empty set of integers
SetMin(S) == CHOOSE v \in S : \A w \in S : v <= w
SetMax(S) == CHOOSE v \in S : \A w \in S : w <= v

\* sorted(S) for a set S of integers: the i-th element has i - 1 elements
\* below it
Sorted(S) == [i \in 1..Cardinality(S) |-> CHOOSE v \in S : Cardinality({w \in S : w < v}) = i - 1]

\* \d
IsDigit(c) == \E d \in 0..9 : DigitChar(d) = c

\* int(s) for s matching -?\d+
RECURSIVE IntOfDigits(_, _)
IntOfDigits(s, acc) ==
    IF s = <<>> THEN acc
    ELSE IntOfDigits(Tail(s), 10 * acc + (CHOOSE d \in 0..9 : DigitChar(d) = Head(s)))

ParseInt(s) == IF s # <<>> /\ Head(s) = "-" THEN 0 - IntOfDigits(Tail(s), 0) ELSE IntOfDigits(s, 0)

\* \d+ (greedy) at index i of s, s[i] a digit: the index of the last digit
DigitsEnd(s, i) ==
    LET stops == {k \in i..Len(s) : ~IsDigit(s[k])}
    IN  IF stops = {} THEN Len(s) ELSE SetMin(stops) - 1

\* ------------------------------------------------------------------------
\* expand_frame_spec
\* ------------------------------------------------------------------------

\* the match of (\d+)(?:(?:-(\d+))(?:[x:](-?\d+))?)? at index i of s, s[i] a
\* digit: its three groups and the index of its last character
FspecMatchAt(s, i) ==
    LET e1 == DigitsEnd(s, i)
        hasEnd == e1 + 2 <= Len(s) /\ s[e1 + 1] = "-" /\ IsDigit(s[e1 + 2])
        e2 == IF hasEnd THEN DigitsEnd(s, e1 + 2) ELSE e1
        hasSep == hasEnd /\ e2 + 2 <= Len(s) /\ s[e2 + 1] \in {"x", ":"}
        d0 == IF hasSep /\ s[e2 + 2] = "-" THEN e2 + 3 ELSE e2 + 2
        hasStep == hasSep /\ d0 <= Len(s) /\ IsDigit(s[d0])
        e3 == IF hasStep THEN DigitsEnd(s, d0) ELSE e2
    IN  [start |-> SubSeq(s, i, e1),
         end |-> IF hasEnd THEN SubSeq(s, e1 + 2, e2) ELSE None,
         step |-> IF hasStep THEN SubSeq(s, e2 + 2, e3) ELSE None,
         stop |-> e3]

\* compiled_pattern.finditer(subspec): the matches from index i on, left to
\* right, none overlapping
RECURSIVE FspecFindIter(_, _)
FspecFindIter(s, i) ==
    IF i > Len(s) THEN <<>>
    ELSE IF IsDigit(s[i])
         THEN <<FspecMatchAt(s, i)>> \o FspecFindIter(s, FspecMatchAt(s, i).stop + 1)
         ELSE FspecFindIter(s, i + 1)

\* the values of range(start, stop, step), step # 0
PyRange(start, stop, step) ==
    IF step > 0
    THEN {v \in start..(stop - 1) : (v - start) % step = 0}
    ELSE {v \in (stop + 1)..start : (start - v) % (0 - step) = 0}

\* step of a match: 1 when the group is None
StepOf(m) == IF m.step = None THEN 1 ELSE ParseInt(m.step)

\* faulty variant: the end of the range is left out
FrameOffsetNone(step) == 0

\* offset = 1 if step > 0 else -1
FrameOffset(step) == IF step > 0 THEN 1 ELSE -1

\* the frames one match adds to output
SubrangeFrames(m) ==
    PyRange(ParseInt(m.start),
            (IF m.end = None THEN ParseInt(m.start) ELSE ParseInt(m.end)) + FrameOffset(StepOf(m)),
            StepOf(m))

\* the matches of all the subspecs of framespec.split(",")
FspecMatches(framespec) ==
    UNION {Range(FspecFindIter(sub, 1)) : sub \in Range(StrSplit(framespec, ","))}

\* expand_frame_spec(framespec): the sorted list of the frames; range()
\* raises ValueError for a step of 0
ExpandFrameSpec(framespec) ==
    IF \E m \in FspecMatches(framespec) : StepOf(m) = 0
    THEN Raises("ValueError")
    ELSE Returns(Sorted(UNION {SubrangeFrames(m) : m \in FspecMatches(framespec)}))

\* the subranges of the framespecs given to the functions: a single frame,
\* start-end, start-end with a step after x or :
Subranges ==
    {[start |-> a, end |-> None, step |-> None, sep |-> "x"] : a \in {1, 5, 8}}
    \cup {[start |-> a, end |-> Some(b), step |-> None, sep |-> "x"] :
             <<a, b>> \in {<<1, 1>>, <<1, 5>>, <<5, 1>>, <<5, 5>>, <<10, 12>>}}
    \cup {[start |-> a, end |-> Some(b), step |-> Some(st), sep |-> "x"] :
             a \in {1, 5}, b \in {1, 5}, st \in {2, -1, 0}}
    \cup {[start |-> 1, end |-> Some(5), step |-> Some(2), sep |-> ":"]}

\* the trailing padding markers of a framespec
Markers == {<<>>, <<"#">>, <<"@", "@">>, <<"#", "#", "#">>}

\* str(v) for any integer v
IntText(v) == IF v < 0 THEN <<"-">> \o Str(0 - v) ELSE Str(v)

\* the text of a subrange and of a list of subranges
SubrangeText(sr) ==
    Str(sr.start) \o
    (IF sr.end = None THEN <<>>
     ELSE <<"-">> \o Str(sr.end[1]) \o
          (IF sr.step = None THEN <<>> ELSE <<sr.sep>> \o IntText(sr.step[1])))

RECURSIVE FramespecText(_)
FramespecText(srs) ==
    IF srs = <<>> THEN <<>>
    ELSE IF Len(srs) = 1 THEN SubrangeText(srs[1])
    ELSE SubrangeText(srs[1]) \o <<",">> \o FramespecText(Tail(srs))

\* the framespec "1-5,8,10-12" of the documentation
DocSubranges ==
    <<[start |-> 1, end |-> Some(5), step |-> None, sep |-> "x"],
      [start |-> 8, end |-> None, step |-> None, sep |-> "x"],
      [start |-> 10, end |-> Some(12), step |-> None, sep |-> "x"]>>

\* the framespecs given to expand_frame_spec: the text, and the subranges and
\* markers it was written from
FramespecArgs ==
    {[framespec |-> FramespecText(srs) \o mk, subranges |-> srs, markers |-> mk] :
        srs \in UNION {[1..k -> Subranges] : k \in 1..MaxSubranges} \cup {DocSubranges},
        mk \in Markers}

InitExpand ==
    /\ NoStore
    /\ given \in FramespecArgs
    /\ returned = NotReturned

\* returned = expand_frame_spec(given.framespec)
ExpandFrameSpecCall ==
    /\ returned = NotReturned
    /\ returned' = ExpandFrameSpec(given.framespec)
    /\ UNCHANGED <<storeVars, given, local>>

SpecExpand == InitExpand /\ [][ExpandFrameSpecCall]_vars

\* ------------------------------------------------------------------------
\* calc_padding
\* ------------------------------------------------------------------------

\* s.split(sep, 1) for a sep that occurs in s: the text before and the text
\* after the first occurrence of sep
SplitOnce(s, sep) ==
    LET i == SetMin({k \in 1..(Len(s) - Len(sep) + 1) :
                        SubSeq(s, k, k + Len(sep) - 1) = sep})
    IN  <<SubSeq(s, 1, i - 1), SubSeq(s, i + Len(sep), Len(s))>>

\* calc_padding(frames, framespec, padding)
CalcPadding(frames, framespec, padding) ==
    IF padding = None THEN 1
    ELSE IF padding[1] = 0
         THEN IF frames # <<>> THEN Len(Str(SetMax(Range(frames)))) ELSE 1
    ELSE IF framespec # <<>> /\ "#" \in Range(framespec)
         THEN Len(SplitOnce(framespec, <<"#">>)[2]) + 1
    ELSE IF framespec # <<>> /\ "@" \in Range(framespec)
         THEN Len(SplitOnce(framespec, <<"@">>)[2]) + 1
    ELSE padding[1]

\* the padding arguments: None, 0 and widths
Paddings == {None, Some(0), Some(1), Some(2), Some(3), Some(4)}

\* the arguments of calc_padding as expand_frame_sequence and expand_files
\* pass them: the frames of a framespec of one subrange, the framespec, and
\* the caller's padding
PaddingArgs ==
    {[frames |-> ExpandFrameSpec(a.framespec).value, framespec |-> a.framespec,
      markers |-> a.markers, padding |-> pd] :
        a \in {b \in FramespecArgs :
                  Len(b.subranges) = 1 /\ b.subranges[1].step # Some(0)},
        pd \in Paddings}

InitPadding ==
    /\ NoStore
    /\ given \in PaddingArgs
    /\ returned = NotReturned

\* returned = calc_padding(given.frames, given.framespec, given.padding)
CalcPaddingCall ==
    /\ returned.err = "pending"
    /\ returned' = Returns(CalcPadding(given.frames, given.framespec, given.padding))
    /\ UNCHANGED <<storeVars, given, local>>

SpecPadding == InitPadding /\ [][CalcPaddingCall]_vars

\* ------------------------------------------------------------------------
\* find_frame_spec
\* ------------------------------------------------------------------------

\* \d+ from index j of s: the indexes after one digit or more (the regex may
\* give digits back)
DigitRuns(s, j) == {k \in (j + 1)..(Len(s) + 1) : \A m \in j..(k - 1) : IsDigit(s[m])}

\* one repetition (?:(?<!\.),)?\d+(?:-\d+(?:[x:]-?\d+)?)? from index j of s: the
\* indexes it can stop before
FspecItemEnds(s, j) ==
    LET from == {j} \cup (IF j <= Len(s) /\ s[j] = "," /\ (j = 1 \/ s[j - 1] # ".")
                          THEN {j + 1} ELSE {})
        a == UNION {DigitRuns(s, k) : k \in from}
        b == UNION {IF k <= Len(s) /\ s[k] = "-" THEN DigitRuns(s, k + 1) ELSE {} : k \in a}
        c == UNION {IF k <= Len(s) /\ s[k] \in {"x", ":"}
                    THEN DigitRuns(s, k + 1) \cup
                         (IF k + 1 <= Len(s) /\ s[k + 1] = "-"
                          THEN DigitRuns(s, k + 2) ELSE {})
                    ELSE {} : k \in b}
    IN  a \cup b \cup c

\* (?:...)+ : the indexes one repetition or more can stop before
RECURSIVE FspecItemsEnds(_, _, _)
FspecItemsEnds(s, frontier, seen) ==
    LET new == UNION {FspecItemEnds(s, j) : j \in frontier} \ seen
    IN  IF new = {} THEN seen ELSE FspecItemsEnds(s, new, seen \cup new)

\* the match of fspec_pattern at index i of s: the indexes it can stop
\* before, none when there is no match.  The text matched holds no dot and a
\* dot or the end of s follows it, so there is one index at most.
FspecPatternEnds(s, i) ==
    IF ~(i = 1 \/ s[i - 1] = ".") THEN {}
    ELSE LET items == FspecItemsEnds(s, {i}, {})
             marked == UNION {{m \in (k + 1)..(Len(s) + 1) :
                                  \E c \in {"@", "#"} : \A n \in k..(m - 1) : s[n] = c} :
                              k \in items}
         IN  {k \in items \cup marked : k = Len(s) + 1 \/ s[k] = "."}

\* compiled_pattern.finditer(string) from index i on: match.start() and
\* match.end() of each match, left to right (offsets from 0, as in Python)
RECURSIVE FspecPatternFindIter(_, _)
FspecPatternFindIter(s, i) ==
    IF i > Len(s) THEN <<>>
    ELSE IF FspecPatternEnds(s, i) # {}
         THEN <<[start |-> i - 1, end |-> SetMax(FspecPatternEnds(s, i)) - 1]>>
              \o FspecPatternFindIter(s, SetMax(FspecPatternEnds(s, i)))
         ELSE FspecPatternFindIter(s, i + 1)

\* faulty variant: the first match is kept
FspecFirstMatch(ms, match_start, match_end) ==
    IF ms = <<>> THEN <<match_start, match_end>>
    ELSE <<Some(ms[1].start), Some(ms[1].end)>>

\* the loop over the matches: match_start and match_end after it.  A value of
\* None or 0 is false in `if match_start:`.
RECURSIVE FspecLastMatch(_, _, _)
FspecLastMatch(ms, match_start, match_end) ==
    IF ms = <<>> THEN <<match_start, match_end>>
    ELSE FspecLastMatch(Tail(ms),
             IF match_start \notin {None, Some(0)}
             THEN Some(SetMax({match_start[1], ms[1].start})) ELSE Some(ms[1].start),
             IF match_end \notin {None, Some(0)}
             THEN Some(SetMax({match_end[1], ms[1].end})) ELSE Some(ms[1].end))

\* find_frame_spec(string): <<prefix, framespec, suffix>>
FindFrameSpec(string) ==
    LET m == FspecLastMatch(FspecPatternFindIter(string, 1), None, None)
    IN  IF m[1] = None \/ m[2] = None THEN <<string, <<>>, <<>> >>
        ELSE <<SubSeq(string, 1, m[1][1]),
               SubSeq(string, m[1][1] + 1, m[2][1]),
               SubSeq(string, m[2][1] + 1, Len(string))>>

\* the texts between the dots of the file names given to find_frame_spec:
\* framespecs, texts that are none, and the empty text
FieldTexts ==
    {<<"a">>, <<>>, <<"1">>, <<"1", "-", "5">>, <<"1", "-", "5", "x", "-", "2">>,
     <<"1", ",", "3">>, <<",", "1">>, <<"1", "#">>, <<"1", "x", "2">>, <<"1", "-">>}

\* the file names: MaxFields texts at most, joined by dots
FileNames ==
    {StrJoin(fields, ".") : fields \in UNION {[1..k -> FieldTexts] : k \in 1..MaxFields}}

InitFind ==
    /\ NoStore
    /\ given \in {[string |-> n] : n \in FileNames}
    /\ returned = NotReturned

\* returned = find_frame_spec(given.string)
FindFrameSpecCall ==
    /\ returned.err = "pending"
    /\ returned' = Returns(FindFrameSpec(given.string))
    /\ UNCHANGED <<storeVars, given, local>>

SpecFind == InitFind /\ [][FindFrameSpecCall]_vars

\* ------------------------------------------------------------------------
\* seq_id_to_regex
\* ------------------------------------------------------------------------

\* a piece of a compiled regular expression: re is "lit" (the character c,
\* escaped by re.escape where it has to be), "\d{n}" (n digits), "\d+",
\* "0*", "[1-9]\d{3}" or "[1-9]\d{3}.*"
ReTok(re, c, n) == [re |-> re, c |-> c, n |-> n]

\* re.escape(text), compiled: every character matches itself
ReEscape(text) == [i \in 1..Len(text) |-> ReTok("lit", text[i], 0)]

\* %\d+d at index i of s: the index of its d, 0 when it does not match there
PrintfEnd(s, i) ==
    IF /\ i + 2 <= Len(s) /\ s[i] = "%" /\ IsDigit(s[i + 1])
       /\ DigitsEnd(s, i + 1) < Len(s) /\ s[DigitsEnd(s, i + 1) + 1] = "d"
    THEN DigitsEnd(s, i + 1) + 1 ELSE 0

\* faulty variant: the test for a printf identifier never succeeds
DoPrintfNever(string) == FALSE

\* do_printf = re.search(r'[\._]%\d+d', string)
DoPrintf(string) ==
    \E i \in 1..Len(string) : string[i] \in {".", "_"} /\ PrintfEnd(string, i + 1) # 0

\* result.groups() of re.match of printf_input_pattern (its first group is
\* blank) or of hash_input_pattern: <<delim, identifier>> of the first place
\* the pattern matches, None when re.match returns None
SeqIdGroups(string, do_printf) ==
    LET hits == IF do_printf
                THEN {i \in 1..Len(string) : PrintfEnd(string, i) # 0}
                ELSE {i \in 1..(Len(string) - 1) :
                         string[i] \in {".", "_"} /\ string[i + 1] = "#"}
        i == SetMin(hits)
        stops == {k \in (i + 1)..Len(string) : string[k] # "#"}
    IN  IF hits = {} THEN None
        ELSE IF do_printf THEN << <<>>, SubSeq(string, i, PrintfEnd(string, i))>>
        ELSE << <<string[i]>>,
                SubSeq(string, i + 1,
                       IF stops = {} THEN Len(string) ELSE SetMin(stops) - 1)>>

\* seq_id_to_regex(string, match_hash_length): <<prefix, output_pattern,
\* suffix>>, output_pattern compiled
SeqIdToRegex(string, match_hash_length) ==
    LET do_printf == DoPrintf(string)
        result == SeqIdGroups(string, do_printf)
        delim == result[1]
        identifier == result[2]
        length == IF do_printf
                  THEN Some(ParseInt(SubSeq(identifier, 2, Len(identifier) - 1)))
                  ELSE IF match_hash_length THEN Some(Len(identifier)) ELSE None
    IN  IF result = None THEN <<string, <<>>, <<>> >>
        ELSE <<SplitOnce(string, delim \o identifier)[1],
               ReEscape(delim) \o
                   <<IF length # None THEN ReTok("\\d{n}", "", length[1])
                     ELSE ReTok("\\d+", "", 0)>>,
               SplitOnce(string, delim \o identifier)[2]>>

\* the texts a string given to seq_id_to_regex is put together from
SeqIdPieces ==
    {<<"a">>, <<".">>, <<"_">>, <<"#">>, <<"%", "2", "d">>, <<"%", "0", "3", "d">>,
     <<"%", "d">>}

\* "".join(pieces)
RECURSIVE Concat(_)
Concat(pieces) == IF pieces = <<>> THEN <<>> ELSE Head(pieces) \o Concat(Tail(pieces))

InitSeqId ==
    /\ NoStore
    /\ given \in {[string |-> Concat(ps), match_hash_length |-> mhl] :
                     ps \in UNION {[1..k -> SeqIdPieces] : k \in 1..MaxPieces},
                     mhl \in BOOLEAN}
    /\ returned = NotReturned

\* returned = seq_id_to_regex(given.string, given.match_hash_length)
SeqIdToRegexCall ==
    /\ returned.err = "pending"
    /\ returned' = Returns(SeqIdToRegex(given.string, given.match_hash_length))
    /\ UNCHANGED <<storeVars, given, local>>

SpecSeqId == InitSeqId /\ [][SeqIdToRegexCall]_vars

\* ------------------------------------------------------------------------
\* udim_id_to_regex, seq_and_udim_ids_to_regex, re.match
\* ------------------------------------------------------------------------

\* the indexes of s at which the text sep starts
Occurrences(s, sep) ==
    {k \in 1..(Len(s) - Len(sep) + 1) : SubSeq(s, k, k + Len(sep) - 1) = sep}

\* re.match('.*?(' + re.escape(identifier) + ').*', string) finds a match:
\* the identifier stands in the string after characters that `.` matches,
\* which are all but the line feed
UdimMatch(string, identifier) ==
    \E k \in Occurrences(string, identifier) : \A i \in 1..(k - 1) : string[i] # "\n"

\* udim_id_to_regex(string, udim_identifier, strict_udim_format): <<prefix,
\* output_pattern, suffix>>, output_pattern compiled; the identifier is not
\* empty
UdimIdToRegex(string, udim_identifier, strict_udim_format) ==
    LET identifier == IF udim_identifier = None
                      THEN <<"<", "U", "D", "I", "M", ">">> ELSE udim_identifier[1]
    IN  IF UdimMatch(string, identifier)
        THEN <<SplitOnce(string, identifier)[1],
               <<ReTok(IF strict_udim_format THEN "[1-9]\\d{3}" ELSE "[1-9]\\d{3}.*", "", 0)>>,
               SplitOnce(string, identifier)[2]>>
        ELSE <<string, <<>>, <<>> >>

\* the pieces the texts given to udim_id_to_regex are put together from
UdimPieces ==
    {<<"a">>, <<".">>, <<"<">>, <<"\n">>, <<"<", "U", "D", "I", "M", ">">>}

InitUdim ==
    /\ NoStore
    /\ given \in {[string |-> Concat(ps), udim_identifier |-> id, strict_udim_format |-> st] :
                     ps \in UNION {[1..k -> UdimPieces] : k \in 0..MaxPieces},
                     id \in {None, Some(<<".">>)}, st \in BOOLEAN}
    /\ returned = NotReturned

\* returned = udim_id_to_regex(given.string, given.udim_identifier,
\* given.strict_udim_format)
UdimIdToRegexCall ==
    /\ returned.err = "pending"
    /\ returned' = Returns(UdimIdToRegex(given.string, given.udim_identifier,
                                         given.strict_udim_format))
    /\ UNCHANGED <<storeVars, given, local>>

SpecUdim == InitUdim /\ [][UdimIdToRegexCall]_vars

\* seq_and_udim_ids_to_regex(path, match_hash_length, udim_identifier,
\* strict_udim_format): the pattern, compiled
SeqAndUdimIdsToRegex(path, match_hash_length, udim_identifier, strict_udim_format) ==
    LET parent_d == PathSplit(path)[1]
        udim_split == UdimIdToRegex(PathSplit(path)[2], udim_identifier, strict_udim_format)
        prefix_seq_split == SeqIdToRegex(udim_split[1], match_hash_length)
        suffix_seq_split == SeqIdToRegex(udim_split[3], match_hash_length)
    IN  ReEscape(PathJoin(parent_d, prefix_seq_split[1]))
        \o prefix_seq_split[2]
        \o ReEscape(prefix_seq_split[3])
        \o udim_split[2]
        \o ReEscape(suffix_seq_split[1])
        \o suffix_seq_split[2]
        \o ReEscape(suffix_seq_split[3])

\* one piece of a pattern at index j of text: the indexes it can stop before
ReTokEnds(tok, text, j) ==
    LET digits(n) == j + n - 1 <= Len(text) /\ \A k \in j..(j + n - 1) : IsDigit(text[k])
        udim == digits(4) /\ text[j] # "0"
    IN  CASE tok.re = "lit" -> IF j <= Len(text) /\ text[j] = tok.c THEN {j + 1} ELSE {}
          [] tok.re = "\\d{n}" -> IF digits(tok.n) THEN {j + tok.n} ELSE {}
          [] tok.re = "\\d+" -> DigitRuns(text, j)
          [] tok.re = "0*" -> {k \in j..(Len(text) + 1) : \A m \in j..(k - 1) : text[m] = "0"}
          [] tok.re = "[1-9]\\d{3}" -> IF udim THEN {j + 4} ELSE {}
          [] tok.re = "[1-9]\\d{3}.*" -> IF udim THEN (j + 4)..(Len(text) + 1) ELSE {}

\* the indexes the pieces k, k + 1, ... of the pattern can stop before when
\* they start at one of `at`
RECURSIVE ReEnds(_, _, _, _)
ReEnds(pattern, text, k, at) ==
    IF k > Len(pattern) THEN at
    ELSE ReEnds(pattern, text, k + 1, UNION {ReTokEnds(pattern[k], text, j) : j \in at})

\* re.match(pattern, text): the pattern matches text from its start; text
\* may go on after the match
ReMatch(pattern, text) == \E p \in {pattern} : ReEnds(p, text, 1, {1}) # {}

\* ------------------------------------------------------------------------
\* expand_files
\* ------------------------------------------------------------------------

\* the characters of the names, in the order of their code points
AsciiOrder ==
    <<"#", "%", ",", "-", ".", "/", "0", "1", "2", "3", "4", "5", "6", "7", "8", "9",
      ":", "<", ">", "@", "D", "I", "M", "U", "_", "a", "b", "d", "e", "h", "k", "n",
      "o", "r", "s", "t", "x">>

\* a < b for two strings
RECURSIVE StrLess(_, _)
StrLess(a, b) ==
    IF a = <<>> THEN b # <<>>
    ELSE IF b = <<>> THEN FALSE
    ELSE IF Head(a) = Head(b) THEN StrLess(Tail(a), Tail(b))
    ELSE (CHOOSE i \in DOMAIN AsciiOrder : AsciiOrder[i] = Head(a))
         < (CHOOSE i \in DOMAIN AsciiOrder : AsciiOrder[i] = Head(b))

\* list.sort() of a list of strings: the element at index j goes to the place
\* after the elements below it and the equal elements before it
SortStrings(seq) ==
    [i \in DOMAIN seq |->
        seq[CHOOSE j \in DOMAIN seq :
                Cardinality({k \in DOMAIN seq :
                                StrLess(seq[k], seq[j]) \/ (seq[k] = seq[j] /\ k < j)}) = i - 1]]

\* frame_pattern, compiled (the digits of a frame match themselves)
FramePattern(frame, padding, actual_padding) ==
    IF padding \in {None, Some(0)}
    THEN <<ReTok("0*", "", 0)>> \o ReEscape(Str(frame))
    ELSE ReEscape(RJust(Str(frame), actual_padding, "0"))

\* the entries of files_n that the pattern of a frame matches, in the order
\* of files_n
FrameMatches(frame, prefix_pattern, suffix_pattern, padding, actual_padding, files_n) ==
    SelectSeq(files_n,
              LAMBDA file_n :
                  ReMatch(prefix_pattern \o FramePattern(frame, padding, actual_padding)
                              \o suffix_pattern, file_n))

\* the branch `if frames:` of expand_files: the paths appended to output, in
\* the order of the frames
MatchedPaths(frames, prefix_pattern, suffix_pattern, padding, actual_padding, parent_d, files_n) ==
    Concat([i \in DOMAIN frames |->
               [k \in DOMAIN FrameMatches(frames[i], prefix_pattern, suffix_pattern,
                                          padding, actual_padding, files_n) |->
                   PathJoin(parent_d,
                            FrameMatches(frames[i], prefix_pattern, suffix_pattern,
                                         padding, actual_padding, files_n)[k])]])

\* the branch `if frames:` of expand_files: the frames appended to missing
MissingFrames(frames, prefix_pattern, suffix_pattern, padding, actual_padding, files_n) ==
    SelectSeq(frames,
              LAMBDA frame : FrameMatches(frame, prefix_pattern, suffix_pattern, padding,
                                          actual_padding, files_n) = <<>>)

\* missing.sort() and the loop that pads the frames of missing
PaddedMissing(missing, actual_padding) ==
    [i \in 1..Len(missing) |-> RJust(Str(Sorted(Range(missing))[i]), actual_padding, "0")]

\* the texts the file names of a sequence are put together from
ShotText == <<"s", "h", "o", "t">>
ExrText == <<"e", "x", "r">>

\* shot.<frame, zero-padded to width>.exr
ShotName(frame, width) == StrJoin(<<ShotText, RJust(Str(frame), width, "0"), ExrText>>, ".")

\* the file name patterns given to expand_files: framespecs in the middle
\* and at the end of the name, with markers, with no frame and with a step of
\* 0; names with no framespec; sequence and UDIM identifiers
FilePatterns ==
    {StrJoin(<<ShotText, fs, ExrText>>, ".") :
        fs \in {<<"1", "-", "1", "0">>, <<"1", "-", "3">>, <<"3">>, <<"5", "-", "1">>,
                <<"1", "-", "3", "#", "#">>, <<"1", "-", "3", "x", "0">>,
                <<"#", ".", "1", "-", "3">>}}
    \cup {StrJoin(<<ShotText, <<"1", "-", "3">> >>, "."),
          StrJoin(<<ShotText, ExrText>>, "."),
          StrJoin(<<<<"n", "o", "n", "e">>, ExrText>>, "."),
          StrJoin(<<<<"a", "_", "<", "U", "D", "I", "M", ">">>, ExrText>>, "."),
          StrJoin(<<<<"a", "_", "<", "U", "D", "I", "M", ">">>, <<"1", "-", "3">>, ExrText>>, ".")}

\* the names a directory listing is drawn from
EntryNames ==
    {ShotName(1, 4), ShotName(2, 4), ShotName(3, 1), ShotName(3, 4) \o <<".", "b", "a", "k">>,
     StrJoin(<<ShotText, ExrText>>, "."),
     StrJoin(<<ShotText, <<"7">>, <<"0", "1">>, ExrText>>, "."),
     StrJoin(<<<<"a", "_", "1", "0", "0", "1">>, <<"2">>, ExrText>>, "."),
     StrJoin(<<ShotText, <<"1">> >>, ".")}

\* os.listdir(parent_d): MaxEntries names at most in any order, or the ten
\* files shot.0001.exr .. shot.0010.exr, or these without shot.0005.exr
DirListings ==
    UNION {{files_n \in [1..k -> EntryNames] :
               \A i, j \in 1..k : i # j => files_n[i] # files_n[j]} : k \in 0..MaxEntries}
    \cup {[i \in 1..10 |-> ShotName(i, 4)],
          [i \in 1..9 |-> ShotName(IF i < 5 THEN i ELSE i + 1, 4)]}

\* the calls of expand_files: a pattern in the directory StoreDir with a
\* listing of it, or a pattern in what is no directory; the other arguments
\* at their defaults
FilesArgs ==
    {[user_pattern |-> PathJoin(StoreDir, n), padding |-> pd, files_n |-> l] :
        n \in FilePatterns, pd \in {None, Some(0), Some(1), Some(4)}, l \in DirListings}
    \cup {[user_pattern |-> PathJoin(d, StrJoin(<<ShotText, ExrText>>, ".")),
           padding |-> None, files_n |-> <<>>] : d \in {PlainFile, MissingDir}}

InitFiles ==
    /\ NoStore
    /\ given \in FilesArgs
    /\ returned = NotReturned

\* returned = expand_files(given.user_pattern, given.padding) when
\* os.listdir(parent_d) is given.files_n; user_pattern is an absolute path,
\* which os.path.abspath normalises; the other arguments have their defaults
ExpandFilesCall ==
    /\ returned.err = "pending"
    /\ \E path \in {PathSplit(NormPath(given.user_pattern))} :
       \E found \in {FindFrameSpec(path[2])} :
       \E expanded \in {IF found[2] = <<>> \/ found[3] = <<>> THEN Returns(<<>>)
                         ELSE ExpandFrameSpec(found[2])} :
          IF DirKind(path[1]) # "dir" THEN returned' = Raises("AssertionError")
          ELSE IF expanded.err # "none" THEN returned' = expanded
          ELSE \E actual_padding \in {CalcPadding(expanded.value, found[2], given.padding)} :
               \E prefix_pattern \in {SeqAndUdimIdsToRegex(found[1], FALSE, None, TRUE)} :
               \E suffix_pattern \in {SeqAndUdimIdsToRegex(found[3], FALSE, None, TRUE)} :
               \E output \in {IF expanded.value # <<>>
                               THEN MatchedPaths(expanded.value, prefix_pattern,
                                        suffix_pattern, given.padding, actual_padding,
                                        path[1], given.files_n)
                               ELSE <<PathJoin(path[1], path[2])>>} :
               \E missing \in {MissingFrames(expanded.value, prefix_pattern, suffix_pattern,
                                    given.padding, actual_padding, given.files_n)} :
                  returned' = Returns(<<SortStrings(output),
                                        PaddedMissing(missing, actual_padding)>>)
    /\ UNCHANGED <<storeVars, given, local>>

SpecFiles == InitFiles /\ [][ExpandFilesCall]_vars

\* ------------------------------------------------------------------------
\* verified_copy_file called on its own, to a destination that may exist
\* ------------------------------------------------------------------------

\* the dst arguments: files of the store directory
CopyNames == {VersionedName(<<"a">>, <<".", "x">>, DefaultVerPrefix, DefaultNumDigits, v) : v \in 1..2}

\* a store that is empty or holds one file, which the caller may write
InitCopy ==
    /\ store \in {<<>>} \cup {(n :> [content |-> c, mode |-> m]) :
                                 n \in CopyNames, c \in Contents,
                                 m \in {SourceMode, LockedMode}}
    /\ pub = [d \in DestPaths |-> NoEntry]
    /\ data_sizes = <<>>
    /\ last = NoCall
    /\ calls = 0
    /\ allFresh = TRUE
    /\ proc = [p \in Procs |-> IdleProc]
    /\ wrote = <<>>
    /\ local = <<>>
    /\ given \in [content : Contents, dst : CopyNames, written : Contents]
    /\ returned = NotReturned

\* verified_copy_file(src, dst): src holds given.content, dst is the file
\* given.dst of the store, the copy puts given.written on disk
VerifiedCopyFileCall ==
    /\ returned.err = "pending"
    /\ \E copy \in {VerifiedCopyFile(store, given.dst, given.content, given.written,
                                     SourceMode)} :
          /\ store' = copy.store
          /\ returned' = IF copy.err = "none" THEN Returns(None) ELSE Raises(copy.err)
    /\ UNCHANGED <<pub, data_sizes, last, calls, allFresh, proc, wrote, given, local>>

SpecCopy == InitCopy /\ [][VerifiedCopyFileCall]_vars

\* ------------------------------------------------------------------------
\* seq_and_udim_ids_to_regex called on its own
\* ------------------------------------------------------------------------

\* the paths are file names put together from a letter, a run of # and a
\* printf token after their delimiters, and the UDIM identifier
InitSeqUdim ==
    /\ NoStore
    /\ given \in {[path |-> Concat(ps), match_hash_length |-> mhl] :
                     ps \in UNION {[1..k -> {<<"a">>, <<".", "#">>, <<"_", "%", "2", "d">>,
                                             <<"<", "U", "D", "I", "M", ">">>}] :
                                      k \in 1..MaxPieces},
                     mhl \in BOOLEAN}
    /\ returned = NotReturned

\* returned = seq_and_udim_ids_to_regex(given.path, given.match_hash_length)
SeqAndUdimIdsToRegexCall ==
    /\ returned.err = "pending"
    /\ returned' = Returns(SeqAndUdimIdsToRegex(given.path, given.match_hash_length,
                                                None, TRUE))
    /\ UNCHANGED <<storeVars, given, local>>

SpecSeqUdim == InitSeqUdim /\ [][SeqAndUdimIdsToRegexCall]_vars

\* ------------------------------------------------------------------------
\* ancestor_contains_file, a step per pass of its loop body
\* ------------------------------------------------------------------------

\* the directories of the tree the searches run in, and the working directory
\* that relative paths are read from
AncestorDirs == {<<"/">>, <<"/", "a">>, <<"/", "a", "/", "b">>, <<"/", "a", "/", "b", "/", "c">>}
WorkingDir == <<"/", "a">>

\* os.path.isdir(p)
IsDir(p) == p \in AncestorDirs

\* os.path.exists(p) for the file name p; marked holds the directories in
\* which a file named s exists, no other file exists
FileExists(marked, p) ==
    \E abs \in {IF StartsWith(p, <<Sep>>) THEN p ELSE PathJoin(WorkingDir, p)} :
        PathSplit(abs)[2] = <<"s">> /\ PathSplit(abs)[1] \in marked

\* the calls of ancestor_contains_file: the root, directories with and
\* without a trailing separator, a file, a missing path; files_n a list of
\* names or, is_list being FALSE, the one name names[1]; every depth up to
\* MaxDepth
AncestorArgs ==
    [path_p : {<<"/">>, <<"/", "a">>, <<"/", "a", "/", "b", "/", "c">>,
               <<"/", "a", "/", "b", "/", "c", "/">>, <<"/", "a", "/", "b", "/", "f">>,
               <<"/", "a", "/", "b", "/", "n">>},
     files_n : {[is_list |-> FALSE, names |-> << <<"s">> >>],
                [is_list |-> TRUE, names |-> << <<"s">> >>],
                [is_list |-> TRUE, names |-> << <<"t">>, <<"s">> >>]},
     depth : {None} \cup {Some(d) : d \in 0..MaxDepth},
     marked : SUBSET AncestorDirs]

InitAncestor ==
    /\ NoStore
    /\ given \in AncestorArgs
    /\ returned = NotReturned

\* the statements before the loop; examined lists the directories whose
\* files were tested so far
AncestorEnter ==
    /\ returned.err = "pending"
    /\ local = <<>>
    /\ \E files_n \in {IF ~given.files_n.is_list THEN <<given.files_n.names[1]>>
                       ELSE given.files_n.names} :
       \E stripped \in {RStrip(given.path_p, Sep)} :
       \E path_p \in {IF ~IsDir(stripped) THEN PathSplit(stripped)[1] ELSE stripped} :
          local' = <<[pc |-> "check", files_n |-> files_n, path_p |-> path_p,
                      already_at_root |-> FALSE, count |-> 0,
                      test_p |-> PathSplit(path_p)[1], examined |-> <<>>]>>
    /\ UNCHANGED <<storeVars, given, returned>>

\* the for loop over files_n at the top of the loop body
AncestorCheck ==
    /\ local # <<>>
    /\ local[1].pc = "check"
    /\ \E found \in {\E i \in DOMAIN local[1].files_n :
                        FileExists(given.marked,
                                   PathJoin(local[1].test_p, local[1].files_n[i]))} :
          /\ local' = <<[local[1] EXCEPT !.pc = IF found THEN "done" ELSE "up",
                                         !.examined = Append(@, local[1].test_p)]>>
          /\ returned' = IF found THEN Returns(Some(local[1].test_p)) ELSE returned
    /\ UNCHANGED <<storeVars, given>>

\* the mutation of AncestorUp that returns when it reaches the root, before
\* the root is examined
AncestorUpStopsBeforeRoot ==
    /\ local # <<>>
    /\ local[1].pc = "up"
    /\ \E test_p \in {PathSplit(local[1].test_p)[1]} :
       \E count \in {local[1].count + 1} :
          IF \/ given.depth \notin {None, Some(0)} /\ count >= given.depth[1]
             \/ PathSplit(test_p)[1] = test_p
          THEN /\ local' = <<[local[1] EXCEPT !.pc = "done", !.test_p = test_p,
                                              !.count = count]>>
               /\ returned' = Returns(None)
          ELSE /\ local' = <<[local[1] EXCEPT
                                 !.pc = "check", !.test_p = test_p, !.count = count]>>
               /\ UNCHANGED returned
    /\ UNCHANGED <<storeVars, given>>

\* the rest of the loop body: one directory up, the depth test, the root test
AncestorUp ==
    /\ local # <<>>
    /\ local[1].pc = "up"
    /\ \E test_p \in {PathSplit(local[1].test_p)[1]} :
       \E count \in {local[1].count + 1} :
          IF given.depth \notin {None, Some(0)} /\ count >= given.depth[1]
          THEN /\ local' = <<[local[1] EXCEPT !.pc = "done", !.test_p = test_p,
                                              !.count = count]>>
               /\ returned' = Returns(None)
          ELSE IF PathSplit(test_p)[1] = test_p /\ local[1].already_at_root
          THEN /\ local' = <<[local[1] EXCEPT !.pc = "done", !.test_p = test_p,
                                              !.count = count]>>
               /\ returned' = Returns(None)
          ELSE /\ local' = <<[local[1] EXCEPT
                                 !.pc = "check", !.test_p = test_p, !.count = count,
                                 !.already_at_root = @ \/ PathSplit(test_p)[1] = test_p]>>
               /\ UNCHANGED returned
    /\ UNCHANGED <<storeVars, given>>

NextAncestor == AncestorEnter \/ AncestorCheck \/ AncestorUp

SpecAncestor == InitAncestor /\ [][NextAncestor]_vars

\* the call is run to its end: a step is taken whenever one can be
SpecAncestorRun == SpecAncestor /\ WF_vars(NextAncestor)

\* ------------------------------------------------------------------------
\* copy_and_add_ver_num called on its own, into a directory that holds
\* versions of the file already
\* ------------------------------------------------------------------------

\* the version numbers held: 1..n, or 1..n with one of them free
HeldVersions ==
    {1..n : n \in 0..MaxVersions}
    \cup UNION {{(1..n) \ {k} : k \in 1..n} : n \in 1..MaxVersions}

\* the calls: a.x is copied with a padding of 1 or 4 digits; names is the
\* listing of the directory before the call
InitVerNum ==
    /\ given \in {[src |-> [path |-> SrcAX, kind |-> "file", content |-> <<0>>],
                   num_digits |-> nd, do_verified_copy |-> dv,
                   names |-> {VersionedName(<<"a">>, <<".", "x">>, DefaultVerPrefix, nd, v) :
                                 v \in held}] :
                     nd \in {1, DefaultNumDigits}, dv \in BOOLEAN, held \in HeldVersions}
    /\ store = [n \in given.names |-> [content |-> <<1>>, mode |-> LockedMode]]
    /\ pub = [d \in DestPaths |-> NoEntry]
    /\ data_sizes = <<>>
    /\ last = NoCall
    /\ calls = 0
    /\ allFresh = TRUE
    /\ proc = [p \in Procs |-> IdleProc]
    /\ wrote = <<>>
    /\ local = <<>>
    /\ returned = NotReturned

\* returned = copy_and_add_ver_num(given.src.path, StoreDir, num_digits=...,
\* do_verified_copy=...), the copy putting the bytes of the source on disk
CopyAndAddVerNumAlone ==
    /\ returned.err = "pending"
    /\ \E copy \in {CopyAndAddVerNum(store, given.src, StoreDir, DefaultVerPrefix,
                                     given.num_digits, given.do_verified_copy,
                                     given.src.content)} :
          /\ store' = copy.store
          /\ returned' = IF copy.err = "none" THEN Returns(copy.dest_p)
                         ELSE Raises(copy.err)
    /\ UNCHANGED <<pub, data_sizes, last, calls, allFresh, proc, wrote, given, local>>

SpecVerNum == InitVerNum /\ [][CopyAndAddVerNumAlone]_vars

\* ------------------------------------------------------------------------
\* Properties of the single-writer store (Spec)
\* ------------------------------------------------------------------------

\* the step is a copy_file_deduplicated call that got past its assertions
RanCall == calls' = calls + 1

\* the file the entry at publish path d names, <<>> when d holds no symlink
Resolved(pb, d) ==
    IF pb[d].kind = "symlink" THEN ResolveLink(PathSplit(d)[1], pb[d].target) ELSE <<>>

\* the stored names a source name can get: base.v<NNNN>ext for some number
VersionsOf(source_p, bound) ==
    LET source_n == PathSplit(source_p)[2]
    IN  [v \in 1..bound |-> VersionedName(PathSplitExt(source_n)[1],
                                PathSplitExt(source_n)[2], DefaultVerPrefix,
                                DefaultNumDigits, v)]

\* C1: starting from the empty store, when every call was given an index that
\* reflects the store at call time, no two files of the store have the same
\* content
C1_NoDuplicateContent ==
    allFresh => \A n, m \in DOMAIN store : store[n].content = store[m].content => n = m

\* two calls with the same content under different names and publish paths
\* left one stored file
C1_Witness ==
    /\ allFresh /\ calls = 2 /\ last.err = "none" /\ ~last.copied
    /\ last.src.path = SrcB /\ last.dest_p = PubY
    /\ DOMAIN store = {VersionsOf(SrcAX, 1)[1]}
    /\ store[VersionsOf(SrcAX, 1)[1]].content = last.src.content

\* C2: after a successful call the publish path is a symlink whose relative
\* target, read from the parent of the publish path, is the returned path; the
\* returned path is a file directly under the store directory with the content
\* of the source
C2_PublishResolves ==
    (last.op = "dedup" /\ last.err = "none") =>
        /\ pub[last.dest_p].kind = "symlink"
        /\ ~StartsWith(pub[last.dest_p].target, <<Sep>>)
        /\ Resolved(pub, last.dest_p) = last.ret
        /\ PathSplit(last.ret)[1] = last.data_d
        /\ StoredName(last.ret) \in DOMAIN store
        /\ store[StoredName(last.ret)].content = last.src.content

\* both publish paths resolve to the one stored file
C2_Witness ==
    /\ last.op = "dedup" /\ last.err = "none" /\ last.dest_p = PubY
    /\ Resolved(pub, PubX) = last.ret
    /\ Resolved(pub, PubY) = last.ret

\* the second of two successive calls with the same content and the same
\* publish path, both successful
Repeated ==
    /\ RanCall
    /\ last.op = "dedup" /\ last.err = "none"
    /\ last'.src.content = last.src.content
    /\ last'.dest_p = last.dest_p

\* the second call returned what the first returned, stored nothing and left
\* the publish path resolving to that file
SameOutcome ==
    /\ last'.err = "none"
    /\ last'.ret = last.ret
    /\ Cardinality(DOMAIN store') = Cardinality(DOMAIN store)
    /\ Resolved(pub', last'.dest_p) = last'.ret

\* C3 as stated: calling twice in a row with the same content and publish path
\* returns the same path, stores nothing more and leaves the publish path
\* resolving to it
C3_Idempotent == [][Repeated => SameOutcome]_vars

\* C3 amended: the same, when every call, the second included, is given an
\* index that reflects the store at call time
C3_IdempotentFresh == [][(Repeated /\ allFresh') => SameOutcome]_vars

\* the second of two such calls, with the first having stored the file
C3_Witness ==
    /\ allFresh /\ calls = 2 /\ last.err = "none" /\ ~last.copied
    /\ Cardinality(DOMAIN store) = 1
    /\ Resolved(pub, PubX) = last.ret
    /\ pub[PubY] = NoEntry

\* no stored file has the content of the source
NoContentMatch(st, src) == \A n \in DOMAIN st : st[n].content # src.content

\* a stored file has the base name of the source
BaseNameStored(st, src) ==
    \E n \in DOMAIN st : n \in Range(VersionsOf(src.path, Cardinality(DOMAIN st)))

\* C4: a call (past its assertions) with a source that matches no stored file
\* in content and an existing stored file in base name adds exactly one file,
\* version-suffixed, and leaves every stored file and every other publish path
\* as it was
C4_NewVersionOnly ==
    [][(RanCall /\ NoContentMatch(store, last'.src) /\ BaseNameStored(store, last'.src)) =>
          /\ \E n \in Range(VersionsOf(last'.src.path, Cardinality(DOMAIN store) + 1)) :
                /\ n \notin DOMAIN store
                /\ DOMAIN store' = DOMAIN store \cup {n}
                /\ store'[n].content = last'.src.content
          /\ \A m \in DOMAIN store : store'[m] = store[m]
          /\ \A d \in DestPaths \ {last'.dest_p} : pub'[d] = pub[d]]_vars

\* a second version of a.x was stored beside the first, whose reference stands
C4_Witness ==
    /\ calls = 2 /\ last.copied /\ last.err = "none" /\ last.dest_p = PubY
    /\ DOMAIN store = Range(VersionsOf(SrcAX, 2))
    /\ store[VersionsOf(SrcAX, 2)[1]].content # store[VersionsOf(SrcAX, 2)[2]].content
    /\ Resolved(pub, PubX) = PathJoin(StoreDir, VersionsOf(SrcAX, 2)[1])

\* int(digits) for a string of decimal digits, -1 when it holds another character
RECURSIVE DecimalValue(_, _)
DecimalValue(digits, acc) ==
    IF digits = <<>> THEN acc
    ELSE IF \E d \in 0..9 : DigitChar(d) = Head(digits)
         THEN DecimalValue(Tail(digits),
                  10 * acc + (CHOOSE d \in 0..9 : DigitChar(d) = Head(digits)))
         ELSE -1

\* name is <base>.<ver_prefix><NNNN><ext> with NNNN the number v in decimal,
\* zero-padded to num_digits
IsVersionOf(name, source_p, num_digits, v) ==
    LET source_n == PathSplit(source_p)[2]
        base     == PathSplitExt(source_n)[1]
        ext      == PathSplitExt(source_n)[2]
        lead     == base \o <<".">> \o DefaultVerPrefix
        digits   == SubSeq(name, Len(lead) + 1, Len(name) - Len(ext))
    IN  /\ base \o ext = source_n
        /\ StartsWith(name, lead)
        /\ SubSeq(name, Len(name) - Len(ext) + 1, Len(name)) = ext
        /\ Len(digits) = (IF Len(Str(v)) > num_digits THEN Len(Str(v)) ELSE num_digits)
        /\ DecimalValue(digits, 0) = v

\* C5: a copy is written as <base>.<ver_prefix><NNNN><ext> with NNNN the
\* smallest positive number, zero-padded to num_digits, whose name the
\* destination directory does not hold; no existing file is overwritten
C5_SmallestFreeVersion ==
    [][(RanCall /\ last'.copied) =>
          LET names == VersionsOf(last'.src.path, Cardinality(DOMAIN store) + 1)
          IN  /\ \E v \in DOMAIN names :
                    /\ last'.matched = PathJoin(last'.data_d, names[v])
                    /\ IsVersionOf(names[v], last'.src.path, last'.num_digits, v)
                    /\ names[v] \notin DOMAIN store
                    /\ names[v] \in DOMAIN store'
                    /\ \A u \in 1..(v - 1) : names[u] \in DOMAIN store
              /\ \A m \in DOMAIN store :
                    m \in DOMAIN store' /\ store'[m].content = store[m].content]_vars

\* version 1 was taken, the copy went to version 2
C5_Witness ==
    /\ last.copied /\ last.err = "none"
    /\ last.matched = PathJoin(StoreDir, VersionsOf(last.src.path, 2)[2])
    /\ VersionsOf(last.src.path, 2)[1] \in DOMAIN store

\* the stored files of the size of the source are all among the candidates
AllCandidates(st, call) ==
    \A n \in DOMAIN st :
        GetSize(st[n].content) = GetSize(call.src.content)
            => PathJoin(StoreDir, n) \in Range(call.possible)

\* C6 as stated: every call builds the index itself from a listing of the
\* store, so a file stored by an earlier call is among the candidates of every
\* later call
C6_IndexBuiltByCall == [][RanCall => AllCandidates(store, last')]_vars

\* C6 amended: the call searches the candidates its data_sizes argument lists
\* for the size of the source and leaves the argument as it is; the stored
\* files of that size are all among them when the argument reflects the store
C6_IndexFromCaller ==
    [][RanCall =>
          /\ data_sizes' = data_sizes
          /\ Range(last'.possible) =
                 IF GetSize(last'.src.content) \in DOMAIN data_sizes
                 THEN Range(data_sizes[GetSize(last'.src.content)]) ELSE {}
          /\ (ReflectsStore(data_sizes, store) => AllCandidates(store, last'))]_vars

\* a call that had the file of the first call among its candidates
C6_Witness ==
    /\ allFresh /\ calls = 2 /\ last.possible # <<>> /\ store # <<>>

\* C7 as stated: whatever entry is at the publish path when the call reaches
\* the publish step, it is replaced by the new symlink and the call succeeds
C7_PublishReplacesAnyEntry ==
    (last.op = "dedup" /\ last.err # "AssertionError") =>
        /\ last.err = "none"
        /\ Resolved(pub, last.dest_p) = last.matched

\* the arguments the claim says are refused
Refusable(call) ==
    \/ IsNestedUnder(call.dest_p, call.data_d)
    \/ call.src.kind \in {"missing", "dir"}
    \/ DirKind(call.data_d) # "dir"

\* C8: with a publish path nested under the store directory, a source that is
\* missing or a directory, or a store directory that is missing or no
\* directory, the call fails and the store (files, contents, permissions) and
\* the publish paths are as before
C8_RefusedBeforeEffect ==
    [][(last' # last /\ Refusable(last')) =>
          /\ last'.err = "AssertionError"
          /\ last'.ret = <<>>
          /\ store' = store
          /\ pub' = pub]_vars

\* a nested publish path was refused with a file in the store
C8_Witness ==
    /\ last.err = "AssertionError" /\ IsNestedUnder(last.dest_p, last.data_d)
    /\ store # <<>>

\* ------------------------------------------------------------------------
\* Properties of the verified copy (SpecFault)
\* ------------------------------------------------------------------------

\* C9: with verification on, when the checksum of the copy just written
\* differs from the checksum of the source, the copy raises an error and the
\* copy written stays in the destination directory
C9_MismatchRaisesAndStays ==
    (/\ last.op = "copy_ver" /\ last.verified
     /\ Md5ForFile(last.written) # Md5ForFile(last.src.content)) =>
        /\ last.err = "IOError"
        /\ last.ret = <<>>
        /\ StoredName(last.matched) \in DOMAIN store
        /\ store[StoredName(last.matched)].content = last.written

\* a verified copy failed and left other bytes than the source's in the store
C9_Witness ==
    /\ last.op = "copy_ver" /\ last.verified /\ last.err = "IOError"
    /\ StoredName(last.matched) \in DOMAIN store
    /\ store[StoredName(last.matched)].content # last.src.content

\* ------------------------------------------------------------------------
\* Properties of concurrent callers (SpecConc)
\* ------------------------------------------------------------------------

\* the caller whose copy to name was the last one
LastWriter(name) ==
    LET hits == {i \in DOMAIN wrote : wrote[i][2] = name}
    IN  wrote[CHOOSE i \in hits : \A j \in hits : j <= i][1]

\* C10: the test for a free version number and the copy are separate steps
\* and the copy overwrites: a stored file written by the callers holds the
\* bytes of the caller that copied to its name last, so two callers that found
\* the same number free leave one file, and the earlier caller's publish path
\* resolves to bytes that are not its source's
C10_LastWriteWins ==
    \A i \in DOMAIN wrote :
        /\ wrote[i][2] \in DOMAIN store
        /\ store[wrote[i][2]].content = proc[LastWriter(wrote[i][2])].src.content

\* both callers have returned the same stored path for different bytes, and
\* the publish path of one resolves to the bytes of the other
C10_Witness ==
    /\ \A p \in Procs : proc[p].pc = "done" /\ proc[p].err = "none"
    /\ proc[1].matched = proc[2].matched
    /\ Len(wrote) = 2
    /\ proc[1].src.content # proc[2].src.content
    /\ Cardinality(DOMAIN store) = 1
    /\ \E p \in Procs :
          /\ Resolved(pub, proc[p].dest_p) = proc[p].matched
          /\ store[StoredName(proc[p].matched)].content # proc[p].src.content

\* the two callers store the same bytes from sources of different base names
SameBytesOtherName ==
    /\ \A p \in Procs : proc[p].pc # "idle"
    /\ proc[1].src.content = proc[2].src.content
    /\ PathSplit(proc[1].src.path)[2] # PathSplit(proc[2].src.path)[2]

\* the store holds two files of identical content
TwoFilesSameContent ==
    \E m, n \in DOMAIN store : m # n /\ store[m].content = store[n].content

\* C11: the size index is not linearizable against concurrent writers: when
\* two callers store byte-identical sources of different base names and the
\* index of each was taken before the copy of the other landed (so the
\* candidate search of each finds nothing), both store a copy and the store
\* ends with two files of identical content
C11_StaleIndexDuplicates ==
    (/\ SameBytesOtherName
     /\ \A p \in Procs :
           /\ proc[p].pc = "done"
           /\ PossibleMatches(proc[p].idx, GetSize(proc[p].src.content)) = <<>>)
    => (TwoFilesSameContent /\ \A p \in Procs : \E i \in DOMAIN wrote : wrote[i][1] = p)

\* both callers have returned, each after a copy of its own, and the store
\* holds the same bytes under two names
C11_Witness ==
    /\ SameBytesOtherName
    /\ \A p \in Procs : proc[p].pc = "done" /\ proc[p].err = "none"
    /\ \A p \in Procs : PossibleMatches(proc[p].idx, GetSize(proc[p].src.content)) = <<>>
    /\ Len(wrote) = 2 /\ wrote[1][1] # wrote[2][1]
    /\ proc[1].matched # proc[2].matched
    /\ Cardinality(DOMAIN store) = 2
    /\ TwoFilesSameContent

\* ------------------------------------------------------------------------
\* Properties of expand_frame_spec (SpecExpand)
\* ------------------------------------------------------------------------

\* the frames a subrange stands for: start alone when it has no end; else
\* start, start+step, start+2*step, ... as far as they lie between start and
\* end, nothing when the direction from start to end contradicts the sign of
\* the step
ClaimedFrames(sr) ==
    IF sr.end = None THEN {sr.start}
    ELSE LET end == sr.end[1]
             step == IF sr.step = None THEN 1 ELSE sr.step[1]
             lo == IF sr.start <= end THEN sr.start ELSE end
             hi == IF sr.start <= end THEN end ELSE sr.start
         IN  IF (step > 0 /\ sr.start > end) \/ (step < 0 /\ sr.start < end) THEN {}
             ELSE {v \in lo..hi : \E k \in 0..(hi - lo) : v = sr.start + k * step}

\* C15: for a framespec none of whose steps is 0, expand_frame_spec returns,
\* in ascending order and without duplicates, exactly the union of the
\* frames its comma-separated subranges stand for
C15_ExpandIsUnionOfSubranges ==
    (/\ returned # NotReturned
     /\ \A i \in DOMAIN given.subranges : given.subranges[i].step # Some(0))
    => /\ returned.err = "none"
       /\ \A i, j \in DOMAIN returned.value : i < j => returned.value[i] < returned.value[j]
       /\ Range(returned.value) =
              UNION {ClaimedFrames(given.subranges[i]) : i \in DOMAIN given.subranges}

\* expand_frame_spec("1-5,8,10-12") has returned [1, 2, 3, 4, 5, 8, 10, 11, 12]
C15_Witness ==
    /\ given.framespec = <<"1", "-", "5", ",", "8", ",", "1", "0", "-", "1", "2">>
    /\ returned = Returns(<<1, 2, 3, 4, 5, 8, 10, 11, 12>>)

\* ------------------------------------------------------------------------
\* Properties of calc_padding (SpecPadding)
\* ------------------------------------------------------------------------

\* C16: a padding argument that is neither None nor 0 is returned as it is,
\* also when the framespec ends with # or @ markers
C16_PaddingArgumentWins ==
    (returned.err = "none" /\ given.padding \notin {None, Some(0)})
    => returned.value = given.padding[1]

\* C17: with a padding argument of None, a framespec that ends with N
\* markers (# or @) gives a padding of N + 1 (4 for 1-5###)
C17_MarkersGiveRunPlusOne ==
    (returned.err = "none" /\ given.padding = None /\ given.markers # <<>>)
    => returned.value = Len(given.markers) + 1

\* ------------------------------------------------------------------------
\* Properties of find_frame_spec (SpecFind)
\* ------------------------------------------------------------------------

\* the candidates of a name: <<i, k>> when fspec_pattern matches the text from
\* index i up to index k - 1
Candidates(name) ==
    UNION {{<<i, k>> : k \in FspecPatternEnds(name, i)} : i \in 1..Len(name)}

TokenAt(s, i, e) ==
    /\ 1 <= i /\ i + 1 < e /\ e <= Len(s)
    /\ s[i] = "%" /\ s[e] = "d"
    /\ \A k \in (i + 1)..(e - 1) : IsDigit(s[k])

\* a delimiter (. or _) stands at index i of s
DelimAt(s, i) == i \in 1..Len(s) /\ s[i] \in {".", "_"}

\* s holds a run of # from index i to index e, as long as it can be
HashRunAt(s, i, e) ==
    /\ 1 <= i /\ i <= e /\ e <= Len(s)
    /\ \A k \in i..e : s[k] = "#"
    /\ (e = Len(s) \/ s[e + 1] # "#")

\* the result replaces the printf token from i to e by a pattern of n digits
ReplacesToken(s, r, i, e) ==
    /\ r[1] = SubSeq(s, 1, i - 1)
    /\ r[2] = <<ReTok("\\d{n}", "", DecimalValue(SubSeq(s, i + 1, e - 1), 0))>>
    /\ r[3] = SubSeq(s, e + 1, Len(s))

\* the result replaces the delimiter at i and the run of # up to e by the
\* delimiter and a pattern of digits
ReplacesHashRun(s, r, i, e, match_hash_length) ==
    /\ r[1] = SubSeq(s, 1, i - 1)
    /\ r[2] = <<ReTok("lit", s[i], 0),
                IF match_hash_length THEN ReTok("\\d{n}", "", e - i)
                ELSE ReTok("\\d+", "", 0)>>
    /\ r[3] = SubSeq(s, e + 1, Len(s))

C20_ReplacedMarkerFollowsDelimiter ==
    (returned.err = "none" /\ returned.value[2] # <<>>) =>
        LET r == returned.value
        IN  \/ r[1] # <<>> /\ r[1][Len(r[1])] \in {".", "_"}
            \/ r[2][1].re = "lit" /\ r[2][1].c \in {".", "_"}

\* the entries of the listing files_n that the compiled pattern matches, as
\* paths in parent_d
EntriesMatching(pattern, parent_d, files_n) ==
    {PathJoin(parent_d, files_n[i]) :
        i \in {k \in DOMAIN files_n : ReMatch(pattern, files_n[k])}}

\* seq is in ascending order as list.sort() orders strings
InStringOrder(seq) == \A i, j \in DOMAIN seq : i < j => ~StrLess(seq[j], seq[i])

\* C12: expand_files with a padding that is neither None nor 0, on a pattern
\* whose framespec expands to the frames F, returns as matched files the
\* entries of the directory that match the pattern of some frame of F and
\* nothing else, sorted by path, and as missing frames the frames of F that no
\* entry matched, ascending, each zero-padded to the effective width
C12_MatchedAndMissingOfFrameSet ==
    (returned.err = "none" /\ given.padding \notin {None, Some(0)}) =>
        \E path \in {PathSplit(NormPath(given.user_pattern))} :
        \E found \in {FindFrameSpec(path[2])} :
        \E expanded \in {IF found[2] = <<>> THEN Raises("no framespec")
                          ELSE ExpandFrameSpec(found[2])} :
            expanded.err = "none" =>
                \E width \in {CalcPadding(expanded.value, found[2], given.padding)} :
                \E prefix_pattern \in {SeqAndUdimIdsToRegex(found[1], FALSE, None, TRUE)} :
                \E suffix_pattern \in {SeqAndUdimIdsToRegex(found[3], FALSE, None, TRUE)} :
                    LET F == Range(expanded.value)
                        Hits(frame) ==
                            EntriesMatching(prefix_pattern
                                                \o ReEscape(RJust(Str(frame), width, "0"))
                                                \o suffix_pattern,
                                            path[1], given.files_n)
                        NoHit == {frame \in F : Hits(frame) = {}}
                    IN  /\ Range(returned.value[1]) = UNION {Hits(frame) : frame \in F}
                        /\ InStringOrder(returned.value[1])
                        /\ returned.value[2] =
                               [i \in 1..Cardinality(NoHit) |->
                                   RJust(Str(Sorted(NoHit)[i]), width, "0")]

\* C13: expand_files on a file name that holds no framespec returns the
\* entries of the directory that the compiled file name matches, and no
\* missing frame: every path returned is an entry of the directory
C13_NoFramespecReturnsMatchingEntries ==
    returned.err = "none" =>
        \E path \in {PathSplit(NormPath(given.user_pattern))} :
        \E found \in {FindFrameSpec(path[2])} :
            found[2] = <<>> =>
                /\ Range(returned.value[1]) =
                       EntriesMatching(SeqAndUdimIdsToRegex(path[2], FALSE, None, TRUE),
                                       path[1], given.files_n)
                /\ returned.value[2] = <<>>

\* C14: when find_frame_spec finds a framespec in the file name and the
\* framespec expands to frames, expand_files returns the matches and the
\* missing frames of the frame-by-frame matching, wherever the framespec
\* stands in the name
C14_FramespecIsExpandedAndMatched ==
    returned.err = "none" =>
        \E path \in {PathSplit(NormPath(given.user_pattern))} :
        \E found \in {FindFrameSpec(path[2])} :
        \E expanded \in {IF found[2] = <<>> THEN Raises("no framespec")
                          ELSE ExpandFrameSpec(found[2])} :
            (expanded.err = "none" /\ expanded.value # <<>>) =>
                \E actual_padding \in {CalcPadding(expanded.value, found[2], given.padding)} :
                \E prefix_pattern \in {SeqAndUdimIdsToRegex(found[1], FALSE, None, TRUE)} :
                \E suffix_pattern \in {SeqAndUdimIdsToRegex(found[3], FALSE, None, TRUE)} :
                    returned.value =
                        <<SortStrings(MatchedPaths(expanded.value, prefix_pattern,
                                                   suffix_pattern, given.padding,
                                                   actual_padding, path[1], given.files_n)),
                          PaddedMissing(MissingFrames(expanded.value, prefix_pattern,
                                                      suffix_pattern, given.padding,
                                                      actual_padding, given.files_n),
                                        actual_padding)>>

\* C21: udim_id_to_regex splits a text that holds the identifier at the first
\* occurrence of it (prefix + identifier + suffix is the text and the prefix
\* holds no occurrence) with the fragment [1-9]\d{3}, strict, or
\* [1-9]\d{3}.*, lenient; a text without the identifier comes back as
\* (text, "", "")
C21_SplitAtFirstIdentifier ==
    returned.err = "none" =>
        LET string == given.string
            identifier == IF given.udim_identifier = None
                          THEN <<"<", "U", "D", "I", "M", ">">>
                          ELSE given.udim_identifier[1]
            r == returned.value
        IN  IF Occurrences(string, identifier) # {}
            THEN /\ r[1] \o identifier \o r[3] = string
                 /\ Occurrences(r[1], identifier) = {}
                 /\ r[2] = <<ReTok(IF given.strict_udim_format
                                   THEN "[1-9]\\d{3}" ELSE "[1-9]\\d{3}.*", "", 0)>>
            ELSE r = <<string, <<>>, <<>> >>

\* the pattern matches the whole of text, from its start to its end
WholeMatch(pattern, text) == \E p \in {pattern} : (Len(text) + 1) \in ReEnds(p, text, 1, {1})

\* C22: expand_files counts an entry of the directory as a match of a frame
\* only when the whole entry name matches prefix pattern + frame + suffix
\* pattern: every matched file is such an entry, and a frame that no whole
\* entry name matches is reported missing
C22_OnlyWholeNamesMatch ==
    returned.err = "none" =>
        \E path \in {PathSplit(NormPath(given.user_pattern))} :
        \E found \in {FindFrameSpec(path[2])} :
        \E expanded \in {IF found[2] = <<>> \/ found[3] = <<>> THEN Raises("no frames")
                          ELSE ExpandFrameSpec(found[2])} :
            (expanded.err = "none" /\ expanded.value # <<>>) =>
                \E actual_padding \in {CalcPadding(expanded.value, found[2], given.padding)} :
                \E prefix_pattern \in {SeqAndUdimIdsToRegex(found[1], FALSE, None, TRUE)} :
                \E suffix_pattern \in {SeqAndUdimIdsToRegex(found[3], FALSE, None, TRUE)} :
                    LET Whole(frame) ==
                            {PathJoin(path[1], given.files_n[i]) :
                                i \in {k \in DOMAIN given.files_n :
                                          WholeMatch(prefix_pattern
                                                         \o FramePattern(frame, given.padding,
                                                                         actual_padding)
                                                         \o suffix_pattern,
                                                     given.files_n[k])}}
                    IN  /\ Range(returned.value[1])
                               \subseteq UNION {Whole(frame) : frame \in Range(expanded.value)}
                        /\ \A frame \in Range(expanded.value) :
                               Whole(frame) = {} =>
                                   RJust(Str(frame), actual_padding, "0")
                                       \in Range(returned.value[2])

\* C23: expand_files raises no error because of the file name of its
\* pattern: in a directory that exists, every call returns its matched and
\* missing lists
C23_NoErrorFromFileName ==
    (returned.err # "pending" /\ DirKind(PathSplit(NormPath(given.user_pattern))[1]) = "dir")
        => /\ returned.err = "none"
           /\ Len(returned.value) = 2

\* C24: verified_copy_file raises an error and leaves the destination as it
\* was when the destination file exists already
C24_ExistingDestinationRefused ==
    [][(returned.err = "pending" /\ given.dst \in DOMAIN store)
           => /\ returned'.err \notin {"pending", "none"}
              /\ store' = store]_vars

\* the places of the digit fragments (\d{n}, \d+) in a compiled pattern
DigitFragments(pattern) == {i \in DOMAIN pattern : pattern[i].re \in {"\\d{n}", "\\d+"}}

\* C25: the pattern seq_and_udim_ids_to_regex compiles for a path holds at
\* most one digit fragment: one sequence marker is converted, the others stay
\* text, whether or not a UDIM identifier stands between them
C25_AtMostOneMarkerConverted ==
    returned.err = "none" => Cardinality(DigitFragments(returned.value)) <= 1

\* the ancestors of a path, the immediate parent directory first, the root last
AncestorsOf(p) ==
    LET comps == PathList(p)
    IN  [i \in 1..Len(comps) |->
            <<Sep>> \o StrJoin(SubSeq(comps, 1, Len(comps) - i), Sep)]

\* C26: ancestor_contains_file with a depth d >= 1 examines the d nearest
\* ancestors of the path, the immediate parent directory first, up to the
\* first one that holds a listed file, which it returns; it returns None when
\* none of the d holds one. The path is a directory, a file or missing.
C26_NearestAncestorsExamined ==
    (returned.err = "none" /\ given.depth \notin {None, Some(0)} /\ given.path_p # <<Sep>>) =>
        LET anc == AncestorsOf(given.path_p)
            d == IF given.depth[1] < Len(anc) THEN given.depth[1] ELSE Len(anc)
            hits == {i \in 1..d : anc[i] \in given.marked}
            stop == IF hits = {} THEN d ELSE SetMin(hits)
            examined == local[1].examined
        IN  /\ Range(examined) = {anc[i] : i \in 1..stop}
            /\ \A i, j \in DOMAIN examined : i < j => Len(examined[j]) <= Len(examined[i])
            /\ returned.value = IF hits = {} THEN None ELSE Some(anc[SetMin(hits)])

\* the call has returned None with no limit of depth, on a path below the root
ReturnedNoneUnlimited ==
    /\ returned = Returns(None)
    /\ given.depth \in {None, Some(0)}
    /\ given.path_p # <<Sep>>

\* C28: ancestor_contains_file returns for every path and every depth (None,
\* 0 or positive); a search that returns None with no limit of depth has
\* examined the root, and no directory examined holds a listed file; the
\* directory examined is never other than the root once the root is reached
C28_SearchEndsAtRoot ==
    /\ <>(returned.err = "none")
    /\ [](ReturnedNoneUnlimited =>
             /\ <<Sep>> \in Range(local[1].examined)
             /\ \A i \in DOMAIN local[1].examined : local[1].examined[i] \notin given.marked)
    /\ [][(local # <<>> /\ local[1].test_p = <<Sep>>) => local'[1].test_p = <<Sep>>]_vars

\* a search with no limit of depth from /a/b/c has examined /a/b, /a and the
\* root, and has returned None
C28_Witness ==
    /\ given.path_p = <<"/", "a", "/", "b", "/", "c">>
    /\ given.depth = None
    /\ returned = Returns(None)
    /\ local[1].examined = << <<"/", "a", "/", "b">>, <<"/", "a">>, <<"/">> >>

\* C27: the search of copy_and_add_ver_num for a version number ends with a
\* free one: no error is raised, the number is at most the number of entries
\* of the directory plus one, no file of its name existed, and the file is
\* added to the entries
C27_VersionSearchFindsFreeNumber ==
    returned.err # "pending" =>
        /\ returned.err = "none"
        /\ \E v \in 1..(Cardinality(given.names) + 1) :
              \E name \in {VersionedName(<<"a">>, <<".", "x">>, DefaultVerPrefix,
                                         given.num_digits, v)} :
                 /\ returned.value = PathJoin(StoreDir, name)
                 /\ name \notin given.names
                 /\ DOMAIN store = given.names \cup {name}
                 /\ \A n \in given.names : store[n].content = <<1>>

\* with one digit of padding and the versions 1 to 9 held, the copy is
\* a.v10.x
C27_Witness ==
    /\ given.num_digits = 1
    /\ Cardinality(given.names) = 9
    /\ returned = Returns(PathJoin(StoreDir, <<"a", ".", "v", "1", "0", ".", "x">>))

\* the last call copied the source into the store and failed to publish it
PublishFailedAfterCopy ==
    /\ last.op = "dedup"
    /\ last.copied
    /\ last.err \notin {"none", "AssertionError"}

\* the stored files whose content is c, as paths
StoredWithContent(st, c) ==
    {PathJoin(StoreDir, n) : n \in {m \in DOMAIN st : st[m].content = c}}

\* C29: when copy_file_deduplicated fails to publish, the file it stored in
\* the same call stays in the store and no publish path names it; a next call
\* with the same content and an index that reflects the store stores nothing
\* and takes a stored file of that content as its match: the file of the
\* failed call whenever the store holds no other file of that content
C29_FailedPublishLeavesReusableFile ==
    /\ [](PublishFailedAfterCopy =>
             /\ IsStored(store, last.matched)
             /\ store[StoredName(last.matched)].content = last.src.content
             /\ \A d \in DestPaths : Resolved(pub, d) # last.matched)
    /\ [][(/\ PublishFailedAfterCopy
           /\ RanCall
           /\ ReflectsStore(data_sizes, store)
           /\ last'.src.content = last.src.content)
              => /\ ~last'.copied
                 /\ DOMAIN store' = DOMAIN store
                 /\ last'.matched \in StoredWithContent(store, last.src.content)
                 /\ StoredWithContent(store, last.src.content) = {last.matched}
                        => last'.matched = last.matched]_vars

\* two calls for the publish path that holds a dangling symlink: the first
\* stored the file and failed, the second, with a fresh index, failed too and
\* stored nothing
C29_Witness ==
    /\ calls = 2
    /\ allFresh
    /\ last.op = "dedup" /\ last.err = "FileExistsError" /\ ~last.copied
    /\ last.dest_p = PubX
    /\ pub[PubX] = DanglingEntry
    /\ \A d \in DestPaths \ {PubX} : pub[d] = NoEntry
    /\ Cardinality(DOMAIN store) = 1
    /\ IsStored(store, last.matched)

\* C30: with a source file and a store directory that pass the other
\* assertions, copy_file_deduplicated is refused exactly when the dest_p
\* string starts with the data_d string: a publish path in a sibling directory
\* whose name starts with the name of the store is refused although it is not
\* inside the store
C30_NestingTestIsStringPrefix ==
    (last.op = "dedup" /\ last.src.kind = "file" /\ DirKind(last.data_d) = "dir") =>
        /\ (last.err = "AssertionError") <=> StartsWith(last.dest_p, last.data_d)
        /\ last.dest_p = PubSibling =>
               /\ last.err = "AssertionError"
               /\ ~IsNestedUnder(last.dest_p, last.data_d)

\* the call with the publish path /a/d2/x and the store /a/d was refused
C30_Witness ==
    /\ last.op = "dedup"
    /\ last.dest_p = PubSibling
    /\ last.data_d = StoreDir
    /\ last.src.kind = "file"
    /\ last.err = "AssertionError"

====
